---- MODULE Spec2Model ----
(***************************************************************************)
(* A model of the Wieserlabs DDS client (src/wieserlabsdds.py): the        *)
(* per-slot command queue (message_stack), the shadow control function     *)
(* registers (cfr_regs), the update coalescer (push_update), the register  *)
(* state tracker (_set_CFR_bit), the waveform operations and the flush     *)
(* (run).                                                                  *)
(*                                                                         *)
(* Representation of the Python values:                                    *)
(*   - a channel argument is an integer; None is the constant None and the *)
(*     empty string "" (ResetMessage, run) is the constant EmptyStr;       *)
(*   - a 32-bit register word is the set of the indices of its 1 bits      *)
(*     (a subset of 0..31), so that bit 31 needs no 64-bit arithmetic;     *)
(*   - a formatted hexadecimal string is the sequence of its digits        *)
(*     (0..15, most significant first); a register value is the sequence   *)
(*     of its "_"-separated hexadecimal fields (the "0x" prefix is         *)
(*     implied);                                                           *)
(*   - frequencies are in Hz, amplitudes in 1/1000 of full scale, phases   *)
(*     in 1/1000 degree, durations in DDS clock ticks of 4 ns.             *)
(***************************************************************************)
EXTENDS Integers, Sequences, FiniteSets, TLC

VARIABLES
    slots,      \* self.slots: slot index -> [message_stack, cfr_regs]
    bit_calls,  \* history: per slot, the last value given to each CFR bit by _set_CFR_bit since the last _reset_cfr
    wire,       \* per slot, the payloads handed to the socket by _send_receive, oldest first
    last,       \* the call just made: method, arguments, what it returned or raised, errors logged, the slot before and after
    prev,       \* the call made before that one
    nops        \* number of calls made so far

vars == <<slots, bit_calls, wire, last, prev, nops>>

(***************************************************************************)
(* Bounds of the model.                                                    *)
(***************************************************************************)
MaxOps == 2         \* calls of the whole interface (Spec)
MaxCalls == 4       \* calls of the queue operations (SpecCoalescer)
MaxWrites == 4      \* register writes and push_update calls (SpecWrites)
MaxCfrCalls == 3    \* _set_CFR_bit calls and flushes (SpecCFR)
MaxFlushCalls == 3  \* tones, frequency ramps and flushes (SpecFlush)
MaxWaitCalls == 3   \* tones, ramps, updates, waits and flushes (SpecWait)
MaxMemoryCalls == 2 \* tones, from_memory calls and flushes (SpecMemory)
MaxSamples == 4     \* storage lengths 1..MaxSamples of the accepted calls (SpecMemory)
MaxStorage == 513   \* storage lengths 0..MaxStorage (SpecStorage)

(***************************************************************************)
(* Python values.                                                          *)
(***************************************************************************)
None == -1
EmptyStr == -2

(***************************************************************************)
(* Arithmetic on naturals too wide for a machine integer: a number is the  *)
(* sequence of its hexadecimal digits, most significant first.             *)
(***************************************************************************)
RECURSIVE ToHex(_)
ToHex(n) == IF n = 0 THEN <<>> ELSE Append(ToHex(n \div 16), n % 16)

Zeros(k) == [i \in 1..k |-> 0]

RECURSIVE StripZeros(_)
StripZeros(h) == IF h # <<>> /\ Head(h) = 0 THEN StripZeros(Tail(h)) ELSE h

\* h padded on the left with zeros to at least w digits
PadLeft(h, w) == IF Len(h) >= w THEN h ELSE Zeros(w - Len(h)) \o h

\* h + 1
RECURSIVE HInc(_)
HInc(h) ==
    IF h = <<>> THEN <<1>>
    ELSE IF h[Len(h)] < 15 THEN [h EXCEPT ![Len(h)] = @ + 1]
    ELSE HInc(SubSeq(h, 1, Len(h) - 1)) \o <<0>>

\* a - b for a >= b, both of the same length, with an incoming borrow
RECURSIVE HSubB(_, _, _)
HSubB(a, b, borrow) ==
    IF a = <<>> THEN <<>>
    ELSE LET n == Len(a)
             d == a[n] - b[n] - borrow
         IN  HSubB(SubSeq(a, 1, n - 1), SubSeq(b, 1, n - 1), IF d < 0 THEN 1 ELSE 0)
                \o <<IF d < 0 THEN d + 16 ELSE d>>

HSub(a, b) ==
    LET w == IF Len(a) > Len(b) THEN Len(a) ELSE Len(b)
    IN  StripZeros(HSubB(PadLeft(a, w), PadLeft(b, w), 0))

\* long division of the number h by den (16 * den fits a machine integer):
\* [q |-> quotient digits, r |-> remainder], the remainder carried in as r
RECURSIVE HDivR(_, _, _)
HDivR(h, den, r) ==
    IF h = <<>> THEN [q |-> <<>>, r |-> r]
    ELSE LET r2 == 16 * r + Head(h)
             rest == HDivR(Tail(h), den, r2 % den)
         IN  [q |-> <<r2 \div den>> \o rest.q, r |-> rest.r]

\* Python's round(h / den): to the nearest, a tie to the even neighbour
HRoundDiv(h, den) ==
    LET d == HDivR(h, den, 0)
        odd == d.q # <<>> /\ d.q[Len(d.q)] % 2 = 1
    IN  IF 2 * d.r > den \/ (2 * d.r = den /\ odd) THEN StripZeros(HInc(d.q)) ELSE StripZeros(d.q)

\* the low w hexadecimal digits of h (h & (16^w - 1))
LowDigits(h, w) == IF Len(h) <= w THEN PadLeft(h, w) ELSE SubSeq(h, Len(h) - w + 1, Len(h))

\* Python's f"{x:0{w}x}" of the natural x: its hexadecimal digits, at least
\* one, padded with zeros to w digits
Hex(h, w) ==
    LET s == StripZeros(h)
    IN  PadLeft(IF s = <<>> THEN <<0>> ELSE s, w)

\* a 32-bit word (the set of its 1 bits) and its 8 hexadecimal digits
HexOfWord(v) ==
    [i \in 1..8 |->
        LET lo == 4 * (8 - i)
        IN  (IF lo \in v THEN 1 ELSE 0) + (IF (lo + 1) \in v THEN 2 ELSE 0)
            + (IF (lo + 2) \in v THEN 4 ELSE 0) + (IF (lo + 3) \in v THEN 8 ELSE 0)]

(***************************************************************************)
(* Unit encoders.                                                          *)
(***************************************************************************)
SYSCLK == 1000000000

\* round(2**32/1e9*f) & 0xffff_ffff as 8 hexadecimal digits; an f out of
\* range is only warned about (the num = 0 of that branch is overwritten).
\* 2**32/1e9 = 2**24/3906250.
freq_to_word(f) ==
    LET mag == HRoundDiv(ToHex(IF f < 0 THEN -f ELSE f) \o Zeros(6), SYSCLK \div 256)
        num == IF f < 0 /\ mag # <<>>
               THEN LowDigits(HSub(<<1>> \o Zeros(8), LowDigits(mag, 8)), 8)
               ELSE LowDigits(mag, 8)
    IN  Hex(num, 8)

\* round(max(0, min(0x3fff, 0x3fff*amp))) as 4 hexadecimal digits
\* freq_to_word(hz + k / 16) for hz >= 0 and k in 0..15: the same function
\* on a grid of 1/16 Hz, round(2**32 / 1e9 * f) & 0xffff_ffff
freq_to_word_16th(hz, k) ==
    Hex(LowDigits(HRoundDiv((ToHex(hz) \o <<k>>) \o Zeros(6), 16 * (SYSCLK \div 256)), 8), 8)

amp_to_word(amp) ==
    LET x == IF amp <= 0 THEN <<>>
             ELSE IF amp >= 1000 THEN ToHex(16383)
             ELSE HRoundDiv(ToHex(16383 * amp), 1000)
    IN  Hex(x, 4)

\* round(2**16 * (phase % 360) / 360) as (at least) 4 hexadecimal digits
phase_to_word(phase) ==
    LET ph == phase % 360000
        p == HRoundDiv(ToHex(ph) \o Zeros(4), 360000)
    IN  Hex(p, 4)

get_bit(v, index) == IF index \in v THEN 1 ELSE 0

\* a set_bit that ORs the bit in and never clears it (told apart by
\* C5_ShadowCumulative)
set_bit_or(v, index, x) == IF x # 0 THEN v \cup {index} ELSE v

\* v with bit index cleared, then set when x is truthy
set_bit(v, index, x) ==
    LET mask == {index}
        cleared == v \ mask
    IN  IF x # 0 THEN cleared \cup mask ELSE cleared

(***************************************************************************)
(* The command model: one record per MessageType subclass.                 *)
(***************************************************************************)
ResetMessage(channel) ==
    [type |-> "ResetMessage", channel |-> IF channel # None THEN channel ELSE EmptyStr]

AD9910RegisterWriteMessage(channel, register_name, value) ==
    [type |-> "AD9910RegisterWriteMessage", channel |-> channel,
     register_name |-> register_name, value |-> value]

DCPRegisterWriteMessage(channel, register_name, value) ==
    [type |-> "DCPRegisterWriteMessage", channel |-> channel,
     register_name |-> register_name, value |-> value]

WaitMessage(channel, wait_time_string, wait_event_string) ==
    [type |-> "WaitMessage", channel |-> channel,
     wait_time_string |-> wait_time_string, wait_event_string |-> wait_event_string]

UpdateMessage(channel, update_type) ==
    [type |-> "UpdateMessage", channel |-> IF channel \in {0, 1} THEN channel ELSE None,
     update_type |-> update_type]

\* the channel token of a protocol line: f"{channel}"
ChannelToken(channel) ==
    IF channel = 0 THEN "0" ELSE IF channel = 1 THEN "1"
    ELSE IF channel = None THEN "None" ELSE IF channel = EmptyStr THEN "" ELSE "2"

\* get_message: the protocol line as its tokens (clean_msg drops the blank
\* an empty channel token leaves, so an empty token is simply absent)
get_message(msg) ==
    CASE msg.type = "ResetMessage" ->
            [cmd |-> "dds", channel |-> ChannelToken(msg.channel), verb |-> "reset",
             name |-> "", value |-> <<>>]
      [] msg.type = "AD9910RegisterWriteMessage" ->
            [cmd |-> "dcp", channel |-> ChannelToken(msg.channel), verb |-> "spi",
             name |-> msg.register_name, value |-> msg.value]
      [] msg.type = "DCPRegisterWriteMessage" ->
            [cmd |-> "dcp", channel |-> ChannelToken(msg.channel), verb |-> "wr",
             name |-> msg.register_name, value |-> msg.value]
      [] msg.type = "WaitMessage" ->
            [cmd |-> "dcp", channel |-> ChannelToken(msg.channel), verb |-> "wait",
             name |-> "", value |-> <<msg.wait_time_string, msg.wait_event_string>>]
      [] msg.type = "UpdateMessage" ->
            [cmd |-> "dcp",
             channel |-> IF msg.channel # None THEN ChannelToken(msg.channel) ELSE "",
             verb |-> "update",
             name |-> msg.update_type, value |-> <<>>]

(***************************************************************************)
(* The client.  A method is an operator on the record `self` of the slot   *)
(* it is called for:                                                       *)
(*   message_stack, cfr_regs   the WieserlabsSlot fields                   *)
(*   bit_calls                 history of the _set_CFR_bit calls           *)
(*   wire                      the payloads sent so far                    *)
(*   log                       the logging.error messages of this call     *)
(*   ret                       what the call returned ("None", "-1") or    *)
(*                             the exception it raised                     *)
(*   frames, depth             the calls of phase_ramp and amplitude_ramp  *)
(*                             entered so far, each with the number of     *)
(*                             calls it is nested in, and the number of    *)
(*                             calls entered and not yet left              *)
(***************************************************************************)
CFR1_DEFAULT == {1, 16, 22}         \* 0x00410002
CFR2_DEFAULT == {6, 7, 11, 22}      \* 0x004008C0

CfrDefault(cfr_index) == IF cfr_index = 0 THEN CFR1_DEFAULT ELSE CFR2_DEFAULT

\* WieserlabsSlot.__init__: an empty queue and the power-on shadow words
WieserlabsSlot ==
    [message_stack |-> <<>>,
     cfr_regs |-> [channel \in {0, 1} |-> [cfr_index \in {0, 1} |-> CfrDefault(cfr_index)]]]

Returned(self, value) == [self EXCEPT !.ret = value]
Logged(self, text) == [self EXCEPT !.log = Append(@, text)]

_validate_slot_channel(slot, channel) ==
    IF channel # None /\ channel # 0 /\ channel # 1 THEN -1
    ELSE IF slot # None /\ (slot < 0 \/ slot > 5) THEN -1
    ELSE 1

\* a push_message that inserts at the front of the queue
push_message_front(self, msg) ==
    [self EXCEPT !.message_stack = <<msg>> \o @]

push_message(self, msg) ==
    [self EXCEPT !.message_stack = Append(@, msg)]

\* Three variants of the scan below, each told apart by one property:
\* one that looks at the last message only (C1_PushUpdateCovers), one that
\* always appends (C3_Idempotent), one that leaves an Update of the other
\* channel as it is (C4_Widening).
push_update_last_only(msg_stack, i, channel) ==
    IF i > 0 /\ msg_stack[i].type = "UpdateMessage" THEN msg_stack
    ELSE Append(msg_stack, UpdateMessage(channel, "u"))

push_update_always(msg_stack, i, channel) == Append(msg_stack, UpdateMessage(channel, "u"))

RECURSIVE push_update_no_widen(_, _, _)
push_update_no_widen(msg_stack, i, channel) ==
    IF i = 0 THEN Append(msg_stack, UpdateMessage(channel, "u"))
    ELSE LET msg == msg_stack[i] IN
         IF msg.type # "UpdateMessage"
         THEN IF msg.channel = None \/ msg.channel = channel
              THEN Append(msg_stack, UpdateMessage(channel, "u"))
              ELSE push_update_no_widen(msg_stack, i - 1, channel)
         ELSE msg_stack

\* the scan of push_update over message_stack[1..i], last message first:
\* the resulting message_stack
RECURSIVE push_update_scan(_, _, _)
push_update_scan(msg_stack, i, channel) ==
    IF i = 0 THEN Append(msg_stack, UpdateMessage(channel, "u"))
    ELSE LET msg == msg_stack[i] IN
         IF msg.type # "UpdateMessage"
         THEN IF msg.channel = None \/ msg.channel = channel
              THEN Append(msg_stack, UpdateMessage(channel, "u"))
              ELSE push_update_scan(msg_stack, i - 1, channel)
         ELSE IF msg.channel # None /\ msg.channel # channel
              THEN [msg_stack EXCEPT ![i].channel = None]
              ELSE msg_stack

\* update_type is accepted and not used: the message is UpdateMessage(channel)
push_update(self, channel, update_type) ==
    [self EXCEPT !.message_stack = push_update_scan(@, Len(@), channel)]

\* a CFR write that carries the power-on CFR1 word whatever the shadow word
\* is (told apart by C6_SendAppendsFullWord)
CfrValueStale(word) == <<HexOfWord(CFR1_DEFAULT)>>

\* the value of a CFR write: f"{word:#010x}"
CfrValue(word) == <<HexOfWord(word)>>

BitCalled(calls, channel, cfr_number, bit_number, bit_value) ==
    {c \in calls : ~(c[1] = channel /\ c[2] = cfr_number /\ c[3] = bit_number)}
        \cup {<<channel, cfr_number, bit_number, bit_value>>}

\* a range check that lets every bit_number through (told apart by
\* C7_RejectedLeavesState)
BitNumberNeverRejected(bit_number) == FALSE

\* the range check of bit_number
InvalidBitNumber(bit_number) == bit_number < 0 \/ bit_number > 31

_set_CFR_bit(self, slot_index, channel, cfr_number, bit_number, bit_value, send) ==
    IF _validate_slot_channel(slot_index, channel) = -1
    THEN Returned(Logged(self, "Invalid channel number"), "-1")
    ELSE IF cfr_number # 1 /\ cfr_number # 2
    THEN Returned(Logged(self, "Invalid value for cfr_number!"), "-1")
    ELSE IF InvalidBitNumber(bit_number)
    THEN Returned(Logged(self, "Invalid value for bit_number!"), "-1")
    ELSE IF bit_value # 0 /\ bit_value # 1
    THEN Returned(Logged(self, "Invalid value for bit_value!"), "ValueError")
    ELSE IF channel = None      \* slot.cfr_regs[None]: list indices must be integers
    THEN Returned(self, "TypeError")
    ELSE LET word == set_bit(self.cfr_regs[channel][cfr_number - 1], bit_number, bit_value)
             s1 == [self EXCEPT !.cfr_regs[channel][cfr_number - 1] = word,
                                !.bit_calls = BitCalled(@, channel, cfr_number, bit_number, bit_value),
                                !.ret = "None"]
         IN  IF send
             THEN push_message(s1, AD9910RegisterWriteMessage(channel,
                                       IF cfr_number = 1 THEN "CFR1" ELSE "CFR2", CfrValue(word)))
             ELSE s1

\* _send_receive: an empty payload is not sent; a response holding "error"
\* raises after the payload went out
\* a _send_receive that sends the payload a second time
_send_receive_twice(self, payload, response) ==
    IF payload = <<>> THEN Returned(self, "None")
    ELSE Returned([self EXCEPT !.wire = Append(Append(@, payload), payload)],
                  IF response = "error" THEN "ValueError" ELSE "None")

_send_receive(self, payload, response) ==
    IF payload = <<>> THEN Returned(self, "None")
    ELSE LET sent == [self EXCEPT !.wire = Append(@, payload)]
         IN  IF response = "error" THEN Returned(sent, "ValueError") ELSE Returned(sent, "None")

\* a run that leaves the channel of a trailing Update as it is
run_keep_channel(self, no_update, response) ==
    LET stack == self.message_stack
        n == Len(stack)
        s1 == IF no_update \/ (n > 0 /\ stack[n].type = "UpdateMessage") THEN self
              ELSE push_message(self, UpdateMessage(None, "u"))
        payload == [i \in 1..Len(s1.message_stack) |-> get_message(s1.message_stack[i])]
        s2 == _send_receive(s1, payload, response)
    IN  IF s2.ret = "ValueError" THEN s2
        ELSE [s2 EXCEPT !.message_stack = <<>>]

\* a run that sends the queue and never clears it
run_without_clear(self, no_update, response) ==
    _send_receive(self, [i \in 1..Len(self.message_stack) |-> get_message(self.message_stack[i])],
                  response)

run(self, no_update, response) ==
    LET stack == self.message_stack
        n == Len(stack)
        s1 == IF no_update THEN self
              ELSE IF n = 0 \/ stack[n].type # "UpdateMessage"
              THEN push_message(self, UpdateMessage(None, "u"))
              ELSE [self EXCEPT !.message_stack[n].channel = EmptyStr]
        payload == [i \in 1..Len(s1.message_stack) |-> get_message(s1.message_stack[i])]
        s2 == _send_receive(s1, payload, response)
    IN  IF s2.ret = "ValueError" THEN s2
        ELSE [s2 EXCEPT !.message_stack = <<>>]

\* a _reset_cfr that loops over the channels first: both words of channel 0,
\* then both words of channel 1
_reset_cfr_by_channel(self, response) ==
    LET s0 == [self EXCEPT !.cfr_regs = WieserlabsSlot.cfr_regs, !.bit_calls = {}]
        w(cfr_number, channel) ==
            AD9910RegisterWriteMessage(channel, IF cfr_number = 0 THEN "CFR1" ELSE "CFR2",
                                       CfrValue(s0.cfr_regs[channel][cfr_number]))
        s1 == push_message(push_message(push_message(push_message(s0,
                  w(0, 0)), w(1, 0)), w(0, 1)), w(1, 1))
    IN  run(s1, FALSE, response)

_reset_cfr(self, response) ==
    LET s0 == [self EXCEPT !.cfr_regs = WieserlabsSlot.cfr_regs, !.bit_calls = {}]
        w(cfr_number, channel) ==
            AD9910RegisterWriteMessage(channel, IF cfr_number = 0 THEN "CFR1" ELSE "CFR2",
                                       CfrValue(s0.cfr_regs[channel][cfr_number]))
        s1 == push_message(push_message(push_message(push_message(s0,
                  w(0, 0)), w(0, 1)), w(1, 0)), w(1, 1))
    IN  run(s1, FALSE, response)

\* a reset addressed to the channel it is given (told apart by
\* C39_ResetAddressesBothChannels)
reset_of_channel(self, channel) ==
    Returned(push_message(self, ResetMessage(channel)), "None")

\* the channel argument is not used: the message is ResetMessage()
reset(self, channel) == Returned(push_message(self, ResetMessage(None)), "None")

\* an stp0 value with the frequency word first
_get_stp0_value_freq_first(freq, amp, phase) ==
    <<freq_to_word(freq), phase_to_word(phase), amp_to_word(amp)>>

_get_stp0_value(freq, amp, phase) ==
    <<amp_to_word(amp), phase_to_word(phase), freq_to_word(freq)>>

\* a single_tone that leaves the ramp enable bit as it is
single_tone_keeps_ramp(self, slot_index, channel, freq, amp, phase) ==
    LET s1 == _set_CFR_bit(self, slot_index, channel, 2, 24, 1, FALSE)
        s2 == _set_CFR_bit(s1, slot_index, channel, 2, 4, 0, TRUE)
        reg_value == _get_stp0_value(freq, amp, phase % 360000)
    IN  Returned(push_message(s2, AD9910RegisterWriteMessage(channel, "stp0", reg_value)), "None")

single_tone(self, slot_index, channel, freq, amp, phase) ==
    LET s1 == _set_CFR_bit(self, slot_index, channel, 2, 24, 1, FALSE)
        s2 == _set_CFR_bit(s1, slot_index, channel, 2, 4, 0, FALSE)
        s3 == _set_CFR_bit(s2, slot_index, channel, 2, 19, 0, TRUE)
        reg_value == _get_stp0_value(freq, amp, phase % 360000)
    IN  Returned(push_message(s3, AD9910RegisterWriteMessage(channel, "stp0", reg_value)), "None")

_clear_ramp_accumulator(self, slot_index, channel) ==
    LET s1 == _set_CFR_bit(self, slot_index, channel, 1, 12, 1, TRUE)
        s2 == push_update(s1, channel, "u")
        s3 == _set_CFR_bit(s2, slot_index, channel, 1, 12, 0, TRUE)
    IN  push_update(s3, channel, "u")

RECURSIVE GCD(_, _)
GCD(a, b) == IF b = 0 THEN a ELSE GCD(b, a % b)

Abs(x) == IF x < 0 THEN -x ELSE x
Max(a, b) == IF a >= b THEN a ELSE b
Min(a, b) == IF a <= b THEN a ELSE b

TicksPerSecond == 250000000

\* int(step / delta * tramp * 1e9 / 4) for tramp given in ticks of 4 ns and
\* delta > 0: the quotient truncated toward zero.  Every count above 0xffff
\* aborts the ramp alike, and is given as 0x10000; a negative count (of a
\* negative step) is exact.
StepTicks(step, delta, tramp) ==
    LET g == GCD(Abs(step), delta)
        st == Abs(step) \div g
        d == delta \div g
        whole == tramp \div d
        n == IF st = 0 THEN 0
             ELSE IF step > 0 /\ whole > 65535 THEN 65536
             ELSE LET ticks == st * whole + (st * (tramp % d)) \div d
                  IN  IF step > 0 THEN Min(65536, ticks) ELSE ticks
    IN  IF step < 0 THEN -n ELSE n

\* f"{n:0{w}x}" of a machine integer: a negative number renders its sign
\* (the digit -1) and w - 1 digits
HexInt(n, w) == IF n < 0 THEN <<-1>> \o Hex(ToHex(-n), w - 1) ELSE Hex(ToHex(n), w)

\* f"{round(num * 16**k / den):0{w}x}", num a machine integer
HexRound(num, k, den, w) ==
    LET mag == HRoundDiv(ToHex(Abs(num)) \o Zeros(k), den)
    IN  IF num < 0 /\ mag # <<>> THEN <<-1>> \o Hex(mag, w - 1) ELSE Hex(mag, w)

\* f"{round(num / den * (2**32 - 1)):0{w}x}", num a machine integer
HexRoundFullScale(num, den, w) ==
    LET a == ToHex(Abs(num))
        mag == HRoundDiv(HSub(a \o Zeros(8), a), den)
    IN  IF num < 0 /\ mag # <<>> THEN <<-1>> \o Hex(mag, w - 1) ELSE Hex(mag, w)

RampMessages(self, channel, DRL, DRSS, DRR) ==
    push_message(push_message(push_message(self,
        AD9910RegisterWriteMessage(channel, "DRL", DRL)),
        AD9910RegisterWriteMessage(channel, "DRSS", DRSS)),
        AD9910RegisterWriteMessage(channel, "DRR", DRR))

\* a downward ramp left as it is
NotMirrored(f) == f

\* 1e9 - f: the frequency mirrored around 500 MHz
Mirrored(f) == SYSCLK - f

\* a frequency_ramp that clears the ramp accumulator before it checks its
\* arguments, as phase_ramp and amplitude_ramp do
frequency_ramp_clear_first(self, slot_index, channel, fstart, fend, amp, phase, tramp, fstep, is_filter) ==
    Returned(_clear_ramp_accumulator(self, slot_index, channel),
             IF fstart = fend THEN "-1" ELSE "None")

frequency_ramp(self, slot_index, channel, fstart, fend, amp, phase, tramp, fstep, is_filter) ==
    IF fstart = fend
    THEN Returned(Logged(self, "fstart and fend cannot be the same!"), "-1")
    ELSE
    LET fs == IF fend < fstart THEN Mirrored(fstart) ELSE fstart
        fe == IF fend < fstart THEN Mirrored(fend) ELSE fend
        up_ramp_limit == freq_to_word(Max(fs, fe))
        down_ramp_limit == freq_to_word(Min(fs, fe))
        time_in_dds_clock == StepTicks(fstep, Abs(fs - fe), tramp)
        DRL == <<up_ramp_limit \o down_ramp_limit>>
        DRSS == <<freq_to_word(fstep) \o freq_to_word(fstep)>>
        DRR == <<HexInt(time_in_dds_clock, 4) \o HexInt(time_in_dds_clock, 4)>>
        s1 == IF is_filter THEN self ELSE single_tone(self, slot_index, channel, 0, amp, phase)
        s2 == _clear_ramp_accumulator(s1, slot_index, channel)
        s3 == IF is_filter THEN s2
              ELSE _set_CFR_bit(_set_CFR_bit(_set_CFR_bit(s2,
                       slot_index, channel, 2, 19, 1, FALSE),
                       slot_index, channel, 2, 20, 0, FALSE),
                       slot_index, channel, 2, 21, 0, TRUE)
        s4 == RampMessages(s3, channel, DRL, DRSS, DRR)
        s5 == IF is_filter THEN s4
              ELSE push_message(push_message(s4, UpdateMessage(channel, "u-d")),
                                UpdateMessage(channel, "u+d"))
    IN  IF time_in_dds_clock > 65535
        THEN Returned(Logged(self, "Either tramp is too big or fstep."), "None")
        ELSE Returned(s5, "None")

\* ramp updates that latch and set the direction of a downward ramp in one
\* combined update
RampUpdatesCombined(self, channel, do_ramp_down) ==
    IF do_ramp_down
    THEN push_message(push_message(self, UpdateMessage(channel, "u-d")), UpdateMessage(channel, "-d"))
    ELSE push_message(push_message(self, UpdateMessage(channel, "u-d")), UpdateMessage(channel, "+d"))

\* the two updates that end a phase or amplitude ramp
RampUpdates(self, channel, do_ramp_down) ==
    IF do_ramp_down
    THEN push_message(push_message(self, UpdateMessage(channel, "u")), UpdateMessage(channel, "-d"))
    ELSE push_message(push_message(self, UpdateMessage(channel, "u-d")), UpdateMessage(channel, "+d"))

\* phase_ramp after its priming call or accumulator clear, which left s1
phase_ramp_body(s1, slot_index, channel, freq, amp, pstart, pend, tramp, pstep, is_filter) ==
    LET norm_pstart == pstart % 360000
        norm_pend == pend % 360000
        up_ramp_limit == HexRound(Max(norm_pstart, norm_pend), 8, 360000, 8)
        down_ramp_limit == HexRound(Min(norm_pstart, norm_pend), 8, 360000, 8)
        do_ramp_down == pstart > pend
        time_in_dds_clock == StepTicks(pstep, Abs(pstart - pend), tramp)
        phase_step_format == HexRound(pstep, 8, 360000, 8)   \* 2**29/45 = 2**32/360
        DRL == <<up_ramp_limit \o down_ramp_limit>>
        DRSS == <<phase_step_format \o phase_step_format>>
        DRR == <<HexInt(time_in_dds_clock, 4) \o HexInt(time_in_dds_clock, 4)>>
        s2 == IF is_filter THEN s1
              ELSE LET t == single_tone(s1, slot_index, channel, freq, amp, 0)
                   IN  _set_CFR_bit(_set_CFR_bit(_set_CFR_bit(t,
                           slot_index, channel, 2, 19, 1, FALSE),
                           slot_index, channel, 2, 20, 1, FALSE),
                           slot_index, channel, 2, 21, 0, TRUE)
        s3 == RampMessages(s2, channel, DRL, DRSS, DRR)
        s4 == IF is_filter THEN s3 ELSE RampUpdates(s3, channel, do_ramp_down)
    IN  IF norm_pstart = norm_pend
        THEN Returned(Logged(s1, "pstart and pend cannot be the same!"), "-1")
        ELSE IF time_in_dds_clock > 65535
        THEN Returned(Logged(s1, "Either tramp_ns is too big or pstep."), "None")
        ELSE Returned(s4, "None")

\* a phase_ramp that clears the ramp accumulator whether or not it is a filter
phase_ramp_clears_as_filter(self, slot_index, channel, freq, amp, pstart, pend, tramp, pstep, keep_amplitude_for_hack, is_filter) ==
    phase_ramp_body(_clear_ramp_accumulator(self, slot_index, channel),
                    slot_index, channel, freq, amp, pstart, pend, tramp, pstep, is_filter)

\* a call of a ramp entered and left
Enter(self, method, start, end) ==
    [self EXCEPT !.frames = Append(@, [method |-> method, depth |-> self.depth,
                                       start |-> start, end |-> end]),
                 !.depth = @ + 1]

Leave(self) == [self EXCEPT !.depth = @ - 1]

\* a priming ramp that starts at the far end of the range (told apart by
\* C38_PrimingNestsAtMostTwice)
priming_start_far(start) == IF start < 180000 THEN 180000 ELSE 0

\* the start of the priming ramp up to start
priming_start(start) == 0

\* the priming call is phase_ramp(slot_index, channel, freq,
\* int(keep_amplitude_for_hack) * amp, 0, pstart, 4, pstart): 4 seconds
RECURSIVE phase_ramp(_, _, _, _, _, _, _, _, _, _, _)
phase_ramp(self, slot_index, channel, freq, amp, pstart, pend, tramp, pstep, keep_amplitude_for_hack, is_filter) ==
    LET entered == Enter(self, "phase_ramp", pstart, pend)
    IN  Leave(phase_ramp_body(
            IF is_filter THEN entered
            ELSE IF pstart > pend
            THEN phase_ramp(entered, slot_index, channel, freq,
                            IF keep_amplitude_for_hack THEN amp ELSE 0,
                            priming_start(pstart), pstart, 4 * TicksPerSecond, pstart,
                            TRUE, FALSE)
            ELSE _clear_ramp_accumulator(entered, slot_index, channel),
            slot_index, channel, freq, amp, pstart, pend, tramp, pstep, is_filter))

\* amplitude_ramp after its priming call or accumulator clear, which left s1
amplitude_ramp_body(s1, slot_index, channel, freq, astart, aend, phase, tramp, astep, is_filter) ==
    LET up_ramp_limit == HexRoundFullScale(Max(Max(astart, aend), 0), 1000, 8)
        down_ramp_limit == HexRoundFullScale(Min(Min(astart, aend), 1000), 1000, 8)
        do_ramp_down == astart > aend
        time_in_dds_clock == StepTicks(astep, Abs(astart - aend), tramp)
        amp_step_format == HexRound(astep, 8, 1000, 8)
        DRL == <<up_ramp_limit \o down_ramp_limit>>
        DRSS == <<amp_step_format \o amp_step_format>>
        DRR == <<HexInt(time_in_dds_clock, 4) \o HexInt(time_in_dds_clock, 4)>>
        s2 == IF is_filter THEN s1
              ELSE LET t == single_tone(s1, slot_index, channel, freq, 0, phase)
                   IN  _set_CFR_bit(_set_CFR_bit(_set_CFR_bit(t,
                           slot_index, channel, 2, 19, 1, FALSE),
                           slot_index, channel, 2, 20, 0, FALSE),
                           slot_index, channel, 2, 21, 1, TRUE)
        s3 == RampMessages(s2, channel, DRL, DRSS, DRR)
        s4 == IF is_filter THEN s3 ELSE RampUpdates(s3, channel, do_ramp_down)
    IN  IF astart = aend
        THEN Returned(Logged(s1, "astart and aend cannot be the same!"), "-1")
        ELSE IF time_in_dds_clock > 65535
        THEN Returned(Logged(s1, "Either tramp is too big or astep."), "None")
        ELSE Returned(s4, "None")

\* the priming call is amplitude_ramp(slot_index, channel, freq, 0, astart,
\* phase, 4, astart): 4 seconds
RECURSIVE amplitude_ramp(_, _, _, _, _, _, _, _, _, _)
amplitude_ramp(self, slot_index, channel, freq, astart, aend, phase, tramp, astep, is_filter) ==
    LET entered == Enter(self, "amplitude_ramp", astart, aend)
    IN  Leave(amplitude_ramp_body(
            IF is_filter THEN entered
            ELSE IF astart > aend
            THEN amplitude_ramp(entered, slot_index, channel, freq, priming_start(astart),
                                astart, phase, 4 * TicksPerSecond, astart, FALSE)
            ELSE _clear_ramp_accumulator(entered, slot_index, channel),
            slot_index, channel, freq, astart, aend, phase, tramp, astep, is_filter))

\* Python's round(n / den) of machine integers n >= 0, den > 0
RoundDiv(n, den) ==
    LET q == n \div den
        r == n % den
    IN  IF 2 * r > den \/ (2 * r = den /\ q % 2 = 1) THEN q + 1 ELSE q

\* t in ticks of 4 ns: t_ns / 8 = t / 2 and t_ns / 1024 = t / 256
\* t_ns <= 134 * 1e6 for t_ns = t * 1e9, t the double nearest to a duration
\* of so many ticks of 4 ns.  The product is rounded to a double: for t = 0.134
\* it is 134000000.00000001 and the comparison fails, for the next double
\* below 0.134 it is 133999999.99999999; no double t gives 134000000.0.
HighResolution(t) == 4 * t < 134000000

WaitTimeString(t) ==
    IF HighResolution(t)
    THEN <<RoundDiv(t, 2), "h">>
    ELSE <<RoundDiv(t, 256), "">>

wait_time(self, slot_index, channel, t) ==
    LET s1 == push_update(self, channel, "u")
    IN  Returned(push_message(s1, WaitMessage(channel, WaitTimeString(t), <<>>)), "None")

\* TriggerEvent: the values of its members
TriggerEventValues ==
    {0, 2, 3, 4, 5, 6, 7, 8, 9, 10, 11, 15, 16, 32, 33, 34, 35, 36, 48, 49, 50, 51, 52}

\* an element of trigger_events that is no TriggerEvent
NotATriggerEvent == -3

\* trigger_events is the list of the values of the events (a single event is
\* wrapped into a list); timeout in ticks of 4 ns, the default -1 s included
wait_trigger(self, slot_index, channel, trigger_events, timeout) ==
    IF \E i \in 1..Len(trigger_events) : trigger_events[i] \notin TriggerEventValues
    THEN Returned(Logged(self, "Didn't receive a valid TriggerEvent, abort!"), "-1")
    ELSE
    LET time_string == IF timeout > 0 THEN WaitTimeString(timeout) ELSE <<>>
        n == Len(self.message_stack)
        s1 == IF n > 0 /\ self.message_stack[n].type # "UpdateMessage"
              THEN push_update(self, channel, "u") ELSE self
    IN  Returned(push_message(s1, WaitMessage(channel, time_string, trigger_events)), "None")

\* RamParameterType: the values of its members
FREQUENCY == 0
PHASE == 1
AMPLITUDE == 2
POLAR == 3
RamParameterType == {FREQUENCY, PHASE, AMPLITUDE, POLAR}

\* a param_type or ramp_filter that is no RamParameterType
NotARamParameterType == -3

\* a sample that float() cannot cast
NotANumber == -1073741824

\* the suffix ":c" of a RAMB or RAM64C value: a field of the one digit 16,
\* which no hexadecimal number has
ContinueSuffix == <<16>>

\* round(max(0, min(0x3fff, 0x3fff*x)))
AmpValue(x) ==
    IF x <= 0 THEN 0 ELSE IF x >= 1000 THEN 16383 ELSE RoundDiv(16383 * x, 1000)

\* f"{retrv_fct(x):0{8}x}" for the three parameter types: the frequency
\* word, the phase word << 16, the amplitude word << 18
retrv_fct(param_type, x) ==
    IF param_type = FREQUENCY THEN freq_to_word(x)
    ELSE IF param_type = PHASE THEN Hex(StripZeros(phase_to_word(x)) \o Zeros(4), 8)
    ELSE Hex(ToHex(4 * AmpValue(x)) \o Zeros(4), 8)

\* the limit the docstring of from_memory names
StorageTooLong1024(n) == n > 1024

\* the storage limit of from_memory
StorageTooLong(n) == n > 512

\* a check of the samples that rejects none
NoSampleInvalid(x) == FALSE

\* the samples float() rejects
InvalidSample(x) == x = NotANumber

\* the RAM data writes of from_memory for the reversed storage r
RamWrites(channel, param_type, r) ==
    LET n == Len(r)
        last_index == n \div 2 - 1
        val(i) == <<retrv_fct(param_type, r[2 * i + 1]), retrv_fct(param_type, r[2 * i + 2])>>
        C(i) == AD9910RegisterWriteMessage(channel, "RAM64C", Append(val(i), ContinueSuffix))
        pairs == [k \in 1..(n \div 2) |->
                     IF k - 1 # last_index \/ n % 2 # 0 THEN C(k - 1)
                     ELSE AD9910RegisterWriteMessage(channel, "RAM64E", val(k - 1))]
    IN  IF n \div 2 > 0 /\ n % 2 # 0
        THEN Append(pairs, AD9910RegisterWriteMessage(channel, "RAM64E",
                                                      <<retrv_fct(param_type, r[n])>>))
        ELSE pairs

\* storage is [list |-> whether list(storage) succeeds, samples |-> its
\* elements]; freq in Hz, amp in 1/1000, phase in 1/1000 degree, tramp in
\* ticks of 4 ns; ramp_filter is None or a RamParameterType
\* the bits of an enumeration value taken in the opposite order
value_bit_swapped(value, index) == (value \div (2 ^ (1 - index))) % 2

\* get_bit(param_type.value, index): (v >> index) & 1 of a small integer
value_bit(value, index) == (value \div (2 ^ index)) % 2

from_memory(self, slot_index, channel, param_type, storage, freq, amp, phase, tramp, ramp_filter) ==
    IF param_type \notin RamParameterType
    THEN Returned(Logged(self, "param_type is not of type RamParameterType!"), "-1")
    ELSE IF ~storage.list
    THEN Returned(Logged(Logged(self, "Cannot cast storage to a list!"),
                         "storage is not a list!"), "-1")
    ELSE IF ramp_filter # None /\ ramp_filter \notin RamParameterType
    THEN Returned(Logged(self, "ramp_filter needs to be of type RamParameterType!"), "-1")
    ELSE IF Len(storage.samples) = 0
    THEN Returned(Logged(self, "storage is empty!"), "-1")
    ELSE IF StorageTooLong(Len(storage.samples))
    THEN Returned(Logged(self, "don't go above 512"), "-1")
    ELSE IF \E i \in 1..Len(storage.samples) : InvalidSample(storage.samples[i])
    THEN Returned(Logged(self, "something in storage can't be cast to float!"), "-1")
    ELSE IF param_type = POLAR
    THEN Returned(Logged(self, "This feature is not implemented yet!"), "-1")
    ELSE
    LET n == Len(storage.samples)
        r == [i \in 1..n |-> storage.samples[n + 1 - i]]
        step_rate == Min(RoundDiv(tramp, n), 65535)
        ram_register_fmt == Zeros(2) \o HexInt(step_rate, 4) \o HexInt(4 * n, 3)
                                \o Zeros(6) \o <<1>>
        s1 == push_message(self, AD9910RegisterWriteMessage(channel, "FTW", <<freq_to_word(freq)>>))
        s2 == push_message(s1, AD9910RegisterWriteMessage(channel, "ASF",
                                   <<Hex(ToHex(4 * AmpValue(amp)), 8)>>))
        s3 == push_message(s2, AD9910RegisterWriteMessage(channel, "POW", <<phase_to_word(phase)>>))
        s4 == push_message(s3, AD9910RegisterWriteMessage(channel, "stp0", <<ram_register_fmt>>))
        s5 == push_update(push_update(s4, channel, "=1p"), channel, "=0p")
        s6 == _set_CFR_bit(_set_CFR_bit(_set_CFR_bit(s5,
                  slot_index, channel, 1, 29, value_bit(param_type, 0), FALSE),
                  slot_index, channel, 1, 30, value_bit(param_type, 1), FALSE),
                  slot_index, channel, 1, 31, 1, TRUE)
        s7 == IF ramp_filter = None THEN s6
              ELSE _set_CFR_bit(_set_CFR_bit(_set_CFR_bit(s6,
                       slot_index, channel, 2, 19, 1, FALSE),
                       slot_index, channel, 2, 20, value_bit(ramp_filter, 0), FALSE),
                       slot_index, channel, 2, 21, value_bit(ramp_filter, 1), TRUE)
        s8 == push_message(s7, AD9910RegisterWriteMessage(channel, "RAMB", <<<<0>>, ContinueSuffix>>))
        s9 == [s8 EXCEPT !.message_stack = @ \o RamWrites(channel, param_type, r)]
    IN  Returned(push_update(s9, channel, "u"), "None")

(***************************************************************************)
(* Analog modulation.  A voltage is a whole number of volts, an output an  *)
(* amplitude, a phase or a frequency in the units above; the solution of   *)
(* the linear system is a fraction in lowest terms.                        *)
(***************************************************************************)
CH0_ONLY == 1
CH1_ONLY == 2
BOTH == 3
ChannelType == {CH0_ONLY, CH1_ONLY, BOTH}

OutputType_AMPLITUDE == 0
OutputType_PHASE == 1
OutputType_FREQUENCY == 2
OutputType == {OutputType_AMPLITUDE, OutputType_PHASE, OutputType_FREQUENCY}

\* the fraction n / d (d # 0) in lowest terms with a positive denominator
Rat(n, d) ==
    LET g == GCD(Abs(n), Abs(d))
    IN  IF d < 0 THEN [n |-> (-n) \div g, d |-> (-d) \div g] ELSE [n |-> n \div g, d |-> d \div g]

RInt(n) == [n |-> n, d |-> 1]

RMul(a, b) ==
    LET g1 == GCD(Abs(a.n), b.d)
        g2 == GCD(Abs(b.n), a.d)
    IN  Rat((a.n \div g1) * (b.n \div g2), (a.d \div g2) * (b.d \div g1))

RAdd(a, b) ==
    LET g == GCD(a.d, b.d)
    IN  Rat(a.n * (b.d \div g) + b.n * (a.d \div g), (a.d \div g) * b.d)

RSub(a, b) == RAdd(a, [n |-> -b.n, d |-> b.d])

\* Python's round(x)
RRound(x) == RoundDiv(x.n, x.d)

\* the natural written with the hexadecimal digits h
RECURSIVE HexValue(_)
HexValue(h) == IF h = <<>> THEN 0 ELSE 16 * HexValue(SubSeq(h, 1, Len(h) - 1)) + h[Len(h)]

\* ceil(log2(n)) for n >= 1: the least k with 2^k >= n
CeilLog2(n) == CHOOSE k \in 0..32 : 2 ^ k >= n /\ (k = 0 \/ 2 ^ (k - 1) < n)

\* round(2**32/1e9*x) & 0xffff_ffff
FrequencyWord(x) == HexValue(freq_to_word(x))

\* volt_fct
volt_fct(x) == IF x < 0 THEN x * 2 ^ 15 ELSE x * (2 ^ 15 - 1)

\* out_fct, for each output_type: the frequency word shifted right by
\* min_gain_setting, round(2**16 * x / 360), round(max(0, min(0x3fff,
\* 0x3fff*x))) << 2
out_fct(output_type, min_gain_setting, x) ==
    IF output_type = OutputType_FREQUENCY THEN FrequencyWord(x) \div (2 ^ min_gain_setting)
    ELSE IF output_type = OutputType_PHASE THEN RoundDiv(1024 * x, 5625)
    ELSE 4 * AmpValue(x)

\* VoltageToOutputMap.__init__ for the points v1, v2, v3, each a record
\* [ch0, ch1, out]; for a frequency map the largest output has a word of
\* more than 16 bits
VoltageToOutputMap(use_outputs, output_type, v1, v2, v3) ==
    LET num == FrequencyWord(Max(v1.out, Max(v2.out, v3.out)))
        min_gain_setting == IF output_type = OutputType_FREQUENCY THEN CeilLog2(num) - 16 ELSE 0
    IN  [use_outputs |-> use_outputs, output_type |-> output_type,
         min_gain_setting |-> min_gain_setting,
         out1 |-> out_fct(output_type, min_gain_setting, v1.out),
         out2 |-> out_fct(output_type, min_gain_setting, v2.out),
         out3 |-> out_fct(output_type, min_gain_setting, v3.out),
         v1ch0 |-> volt_fct(v1.ch0), v2ch0 |-> volt_fct(v2.ch0), v3ch0 |-> volt_fct(v3.ch0),
         v1ch1 |-> volt_fct(v1.ch1), v2ch1 |-> volt_fct(v2.ch1), v3ch1 |-> volt_fct(v3.ch1)]

\* np.linalg.solve(p, y) for p = [[b, 1], [e, 1]] and y = [a, d] * 2**12,
\* divided by 2**12 (the solution is linear in y): <<x0, x1>> / 2**12
Solve2(b, e, a, d) ==
    LET t == Rat(a - d, b - e)
    IN  <<t, RSub(RInt(a), RMul(RInt(b), t))>>

\* the determinant of [[r1[1], r1[2], 1], [r2[1], r2[2], 1], [r3[1], r3[2], 1]]
Det3(r1, r2, r3) ==
    (r2[1] - r1[1]) * (r3[2] - r1[2]) - (r2[2] - r1[2]) * (r3[1] - r1[1])

\* np.linalg.solve(p, y) for the rows p[k] = [r_k[1], r_k[2], 1] and
\* y = [y1, y2, y3] * 2**12, divided by 2**12: <<x0, x1, x2>> / 2**12
Solve3(r1, r2, r3, y1, y2, y3) ==
    LET det == Det3(r1, r2, r3)
        t0 == Rat(Det3(<<y1, r1[2]>>, <<y2, r2[2]>>, <<y3, r3[2]>>), det)
        t1 == Rat(Det3(<<r1[1], y1>>, <<r2[1], y2>>, <<r3[1], y3>>), det)
    IN  <<t0, t1, RSub(RSub(RInt(y1), RMul(RInt(r1[1]), t0)), RMul(RInt(r1[2]), t1))>>

\* G, H, I of get_eqn_parameters: out2, v2ch0 and v2ch1
GHI(map) == <<map.out2, map.v2ch0, map.v2ch1>>

\* VoltageToOutputMap.get_eqn_parameters: s0, s1 and offset, or the
\* LinAlgError of a singular matrix
get_eqn_parameters(map) ==
    LET A == map.out1
        B == map.v1ch0
        C == map.v1ch1
        D == map.out2
        E == map.v2ch0
        F == map.v2ch1
        G == GHI(map)[1]
        H == GHI(map)[2]
    IN  IF map.use_outputs = CH0_ONLY
        THEN IF B = E THEN [raised |-> "LinAlgError"]
             ELSE LET x == Solve2(B, E, A, D)
                  IN  [raised |-> "None", s0 |-> RMul(RInt(2 ^ 12), x[1]), s1 |-> RInt(0),
                       offset |-> x[2]]
        ELSE IF map.use_outputs = CH1_ONLY
        THEN IF C = F THEN [raised |-> "LinAlgError"]
             ELSE LET x == Solve2(C, F, A, D)
                  IN  [raised |-> "None", s0 |-> RInt(0), s1 |-> RMul(RInt(2 ^ 12), x[1]),
                       offset |-> x[2]]
        ELSE IF Det3(<<B, C>>, <<E, F>>, <<G, H>>) = 0 THEN [raised |-> "LinAlgError"]
             ELSE LET x == Solve3(<<B, C>>, <<E, F>>, <<G, H>>, A, D, G)
                  IN  [raised |-> "None", s0 |-> RMul(RInt(2 ^ 12), x[1]),
                       s1 |-> RMul(RInt(2 ^ 12), x[2]), offset |-> x[3]]

\* Python's hex(n): the digits of |n|, after the sign of a negative n
PyHex(n) == IF n < 0 THEN <<-1>> \o Hex(ToHex(-n), 1) ELSE Hex(ToHex(n), 1)

\* an argument that is no VoltageToOutputMap
NotAVoltageToOutputMap == [use_outputs |-> None]

\* analog_modulation without the CFR2 write of the parallel data port bit
\* (told apart by C37_NoShadowChangeLeftUnsent)
parallel_port_bit_unsent(send) == FALSE

\* the send argument of the last _set_CFR_bit of analog_modulation
parallel_port_bit_sent(send) == send

analog_modulation(self, slot_index, channel, map) ==
    IF map = NotAVoltageToOutputMap     \* 'str' object has no attribute 'get_eqn_parameters'
    THEN Returned(Logged(self, "voltage_to_output_map needs to be of type VoltageToOutputMap!"),
                  "AttributeError")
    ELSE LET x == get_eqn_parameters(map) IN
    IF x.raised # "None" THEN Returned(self, x.raised)
    ELSE IF _validate_slot_channel(slot_index, channel) # -1 /\ channel = None
    THEN Returned(self, "TypeError")    \* raised by the first _set_CFR_bit
    ELSE
    LET gain == map.min_gain_setting
        g(s, i) == _set_CFR_bit(s, slot_index, channel, 2, i, value_bit(gain, i), FALSE)
        s1 == IF map.output_type = OutputType_FREQUENCY THEN g(g(g(g(self, 0), 1), 2), 3)
              ELSE self
        s2 == _set_CFR_bit(s1, slot_index, channel, 2, 4, 1, parallel_port_bit_sent(TRUE))
        am_cfg == set_bit({i \in 0..1 : value_bit(map.output_type, i) = 1}, 29, 1)
        w(s, register_name, value) ==
            push_message(s, DCPRegisterWriteMessage(channel, register_name, <<value>>))
        s3 == w(w(w(w(w(w(s2, "AM_S0", PyHex(RRound(x.s0))),
                            "AM_S1", PyHex(RRound(x.s1))),
                          "AM_O0", <<0>>),
                        "AM_O1", <<0>>),
                      "AM_O", PyHex(RRound(x.offset))),
                    "AM_CFG", HexOfWord(am_cfg))
    IN  Returned(push_update(s3, channel, "u"), "None")

(***************************************************************************)
(* The state machine: one action per method call.                          *)
(***************************************************************************)
Slots == {0, 1}             \* the slots of the model (the client holds 0..5)
BadSlot == 6                \* no key of self.slots
Channels == {0, 1}
BadChannel == 2

\* the record of a call: its arguments, what it returned or raised, what it
\* logged, the slot before and after it, and the calls of phase_ramp and
\* amplitude_ramp entered during it
NoCall == [method |-> "__init__", slot_index |-> None, channel |-> None,
           args |-> <<>>, ret |-> "None", log |-> <<>>,
           before |-> WieserlabsSlot, after |-> WieserlabsSlot,
           frames |-> <<>>]

Fresh == [message_stack |-> <<>>, cfr_regs |-> WieserlabsSlot.cfr_regs, bit_calls |-> {},
          wire |-> <<>>, log |-> <<>>, ret |-> "None", frames |-> <<>>, depth |-> 0]

\* WieserlabsClient.__init__: every slot constructed, connected and put
\* through _reset_cfr, which sends the four default CFR writes and leaves
\* the queue empty
Init ==
    /\ slots = [s \in Slots |-> WieserlabsSlot]
    /\ bit_calls = [s \in Slots |-> {}]
    /\ wire = [s \in Slots |-> _reset_cfr(Fresh, "ok").wire]
    /\ last = NoCall
    /\ prev = NoCall
    /\ nops = 0

Self(slot_index) ==
    [message_stack |-> slots[slot_index].message_stack,
     cfr_regs |-> slots[slot_index].cfr_regs,
     bit_calls |-> bit_calls[slot_index],
     wire |-> wire[slot_index],
     log |-> <<>>,
     ret |-> "None",
     frames |-> <<>>,
     depth |-> 0]

\* a client whose slots are references to one slot object: the call changes
\* the queue and the shadow words of every slot
CallOnSharedSlot(method, slot_index, channel, args, r) ==
    /\ slots' = [t \in Slots |-> [message_stack |-> r.message_stack, cfr_regs |-> r.cfr_regs]]
    /\ bit_calls' = [bit_calls EXCEPT ![slot_index] = r.bit_calls]
    /\ wire' = [wire EXCEPT ![slot_index] = r.wire]
    /\ last' = [method |-> method, slot_index |-> slot_index, channel |-> channel,
                args |-> args, ret |-> r.ret, log |-> r.log,
                before |-> slots[slot_index],
                after |-> [message_stack |-> r.message_stack, cfr_regs |-> r.cfr_regs],
                frames |-> r.frames]
    /\ prev' = last

\* the call `method` on slot_index ended in the record r
Call(method, slot_index, channel, args, r) ==
    /\ slots' = [slots EXCEPT ![slot_index] =
                    [message_stack |-> r.message_stack, cfr_regs |-> r.cfr_regs]]
    /\ bit_calls' = [bit_calls EXCEPT ![slot_index] = r.bit_calls]
    /\ wire' = [wire EXCEPT ![slot_index] = r.wire]
    /\ last' = [method |-> method, slot_index |-> slot_index, channel |-> channel,
                args |-> args, ret |-> r.ret, log |-> r.log,
                before |-> slots[slot_index],
                after |-> [message_stack |-> r.message_stack, cfr_regs |-> r.cfr_regs],
                frames |-> r.frames]
    /\ prev' = last

\* self.slots[slot_index] of a slot_index that is no key raises KeyError
NoSuchSlot(method, slot_index, channel, args) ==
    /\ UNCHANGED <<slots, bit_calls, wire>>
    /\ last' = [method |-> method, slot_index |-> slot_index, channel |-> channel,
                args |-> args, ret |-> "KeyError", log |-> <<>>,
                before |-> WieserlabsSlot, after |-> WieserlabsSlot,
           frames |-> <<>>]
    /\ prev' = last

\* one more call, at most max of them
Budget(max) == nops < max /\ nops' = nops + 1

PushMessage(slot_index, msg) ==
    Call("push_message", slot_index, msg.channel, <<msg>>,
         Returned(push_message(Self(slot_index), msg), "None"))

PushUpdate(slot_index, channel, update_type) ==
    Call("push_update", slot_index, channel, <<update_type>>,
         Returned(push_update(Self(slot_index), channel, update_type), "None"))

SetCFRBit(slot_index, channel, cfr_number, bit_number, bit_value, send) ==
    LET args == [cfr_number |-> cfr_number, bit_number |-> bit_number,
                 bit_value |-> bit_value, send |-> send]
    IN  IF slot_index \notin Slots
        THEN NoSuchSlot("_set_CFR_bit", slot_index, channel, args)
        ELSE Call("_set_CFR_bit", slot_index, channel, args,
                  _set_CFR_bit(Self(slot_index), slot_index, channel, cfr_number,
                               bit_number, bit_value, send))

ResetCfr(slot_index, response) ==
    Call("_reset_cfr", slot_index, None, <<response>>, _reset_cfr(Self(slot_index), response))

Reset(slot_index, channel) ==
    Call("reset", slot_index, channel, <<>>, reset(Self(slot_index), channel))

SingleTone(slot_index, channel, freq, amp, phase) ==
    Call("single_tone", slot_index, channel, [freq |-> freq, amp |-> amp, phase |-> phase],
         single_tone(Self(slot_index), slot_index, channel, freq, amp, phase))

FrequencyRamp(slot_index, channel, amp, phase, ramp, is_filter) ==
    Call("frequency_ramp", slot_index, channel,
         [start |-> ramp.start, end |-> ramp.end, amp |-> amp, phase |-> phase,
          tramp |-> ramp.tramp, step |-> ramp.step, is_filter |-> is_filter],
         frequency_ramp(Self(slot_index), slot_index, channel, ramp.start, ramp.end, amp, phase,
                        ramp.tramp, ramp.step, is_filter))

PhaseRamp(slot_index, channel, freq, amp, ramp, is_filter) ==
    Call("phase_ramp", slot_index, channel,
         [start |-> ramp.start, end |-> ramp.end, tramp |-> ramp.tramp, step |-> ramp.step,
          is_filter |-> is_filter],
         phase_ramp(Self(slot_index), slot_index, channel, freq, amp, ramp.start, ramp.end,
                    ramp.tramp, ramp.step, TRUE, is_filter))

AmplitudeRamp(slot_index, channel, freq, phase, ramp, is_filter) ==
    Call("amplitude_ramp", slot_index, channel,
         [start |-> ramp.start, end |-> ramp.end, tramp |-> ramp.tramp, step |-> ramp.step,
          is_filter |-> is_filter],
         amplitude_ramp(Self(slot_index), slot_index, channel, freq, ramp.start, ramp.end, phase,
                        ramp.tramp, ramp.step, is_filter))

WaitTime(slot_index, channel, t) ==
    Call("wait_time", slot_index, channel, <<t>>,
         wait_time(Self(slot_index), slot_index, channel, t))

WaitTrigger(slot_index, channel, trigger_events, timeout) ==
    Call("wait_trigger", slot_index, channel,
         [trigger_events |-> trigger_events, timeout |-> timeout],
         wait_trigger(Self(slot_index), slot_index, channel, trigger_events, timeout))

\* from_memory with freq = 1 MHz, amp = 0.1, phase = 90 degrees, tramp = 1 ms
FromMemory(slot_index, channel, param_type, storage, ramp_filter) ==
    Call("from_memory", slot_index, channel,
         [param_type |-> param_type, storage |-> storage, ramp_filter |-> ramp_filter],
         from_memory(Self(slot_index), slot_index, channel, param_type, storage,
                     1000000, 100, 90000, 250000, ramp_filter))

AnalogModulation(slot_index, channel, map) ==
    Call("analog_modulation", slot_index, channel, map,
         analog_modulation(Self(slot_index), slot_index, channel, map))

Run(slot_index, no_update, response) ==
    Call("run", slot_index, None, [no_update |-> no_update, response |-> response],
         run(Self(slot_index), no_update, response))

(***************************************************************************)
(* The arguments the calls are made with.                                  *)
(***************************************************************************)
Stp0 == _get_stp0_value(1000000, 100, 0)

RegisterWrites == {AD9910RegisterWriteMessage(c, "stp0", Stp0) : c \in Channels}

Messages ==
    RegisterWrites
        \cup {WaitMessage(c, <<125, "h">>, <<>>) : c \in Channels}
        \cup {DCPRegisterWriteMessage(1, "AM_O0", <<<<0>>>>), ResetMessage(None)}

\* [start, end, tramp, step] of a ramp that is programmed, one per direction,
\* of a ramp whose start equals its end, and of a ramp whose step lasts more
\* than 0xffff ticks
PhaseRamps ==
    {[start |-> 0, end |-> 90000, tramp |-> 90000, step |-> 1000],
     [start |-> 90000, end |-> 0, tramp |-> 90000, step |-> 1000],
     [start |-> 90000, end |-> 90000, tramp |-> 90000, step |-> 1000],
     [start |-> 0, end |-> 90000, tramp |-> TicksPerSecond, step |-> 1000],
     [start |-> 90000, end |-> 0, tramp |-> TicksPerSecond, step |-> 1000]}

AmplitudeRamps ==
    {[start |-> 0, end |-> 500, tramp |-> 500000, step |-> 1],
     [start |-> 500, end |-> 0, tramp |-> 500000, step |-> 1],
     [start |-> 500, end |-> 500, tramp |-> 500000, step |-> 1],
     [start |-> 0, end |-> 500, tramp |-> TicksPerSecond, step |-> 1],
     [start |-> 500, end |-> 0, tramp |-> TicksPerSecond, step |-> 1]}

FrequencyRamps ==
    {[start |-> 1000000, end |-> 2000000, tramp |-> 100000000, step |-> 1],
     [start |-> 2000000, end |-> 1000000, tramp |-> 100000000, step |-> 1],
     [start |-> 1000000, end |-> 1000000, tramp |-> 100000000, step |-> 1],
     [start |-> 1000000, end |-> 2000000, tramp |-> 4 * TicksPerSecond, step |-> 1000]}

\* _set_CFR_bit arguments: bit 1 is set in the CFR1 default, bit 31 in none
CfrNumbers == {1, 2}
BitNumbers == {1, 31}
BitValues == {0, 1}

\* rejected _set_CFR_bit arguments: [channel, cfr_number, bit_number, bit_value]
BadCfrArgs ==
    {[channel |-> BadChannel, cfr_number |-> 1, bit_number |-> 1, bit_value |-> 0],
     [channel |-> 0, cfr_number |-> 3, bit_number |-> 31, bit_value |-> 1],
     [channel |-> 0, cfr_number |-> 0, bit_number |-> 1, bit_value |-> 0],
     [channel |-> 1, cfr_number |-> 1, bit_number |-> 32, bit_value |-> 1],
     [channel |-> 1, cfr_number |-> 2, bit_number |-> -1, bit_value |-> 0],
     [channel |-> 0, cfr_number |-> 1, bit_number |-> 1, bit_value |-> 2],
     [channel |-> None, cfr_number |-> 1, bit_number |-> 31, bit_value |-> 1]}

Responses == {"ok", "error"}

\* a storage list of n samples, each different from the others: frequencies
\* from 1.001 MHz in steps of 1 kHz, phases in steps of 0.5 degree,
\* amplitudes in steps of 0.001
Storage(param_type, n) ==
    [list |-> TRUE,
     samples |-> [i \in 1..n |-> IF param_type = PHASE THEN 500 * i
                                 ELSE IF param_type = AMPLITUDE THEN i
                                 ELSE 1000000 + 1000 * i]]

\* the parameter types from_memory programs
RamTypes == {FREQUENCY, PHASE, AMPLITUDE}

\* from_memory arguments that are rejected: a param_type that is no
\* RamParameterType, POLAR, a storage that is no list, an empty storage, 513
\* samples, a sample that is no number, a ramp_filter of the wrong type
BadMemoryArgs ==
    {[param_type |-> NotARamParameterType, storage |-> Storage(FREQUENCY, 2), ramp_filter |-> None],
     [param_type |-> POLAR, storage |-> Storage(FREQUENCY, 2), ramp_filter |-> None],
     [param_type |-> FREQUENCY, storage |-> [list |-> FALSE, samples |-> <<>>], ramp_filter |-> None],
     [param_type |-> FREQUENCY, storage |-> Storage(FREQUENCY, 0), ramp_filter |-> None],
     [param_type |-> FREQUENCY, storage |-> Storage(FREQUENCY, 513), ramp_filter |-> None],
     [param_type |-> FREQUENCY, storage |-> [list |-> TRUE, samples |-> <<1000000, NotANumber>>],
      ramp_filter |-> None],
     [param_type |-> FREQUENCY, storage |-> Storage(FREQUENCY, 2),
      ramp_filter |-> NotARamParameterType]}

\* wait_trigger arguments: one event with the default timeout of -1 s, two
\* events with a timeout of 1 us, and a list holding something that is no
\* TriggerEvent
TriggerArgs ==
    {[trigger_events |-> <<2>>, timeout |-> -TicksPerSecond],
     [trigger_events |-> <<2, 3>>, timeout |-> 250],
     [trigger_events |-> <<2, NotATriggerEvent>>, timeout |-> 250]}

(***************************************************************************)
(* The client under every call of its interface, up to MaxOps calls.       *)
(***************************************************************************)
DoPushMessage ==
    Budget(MaxOps) /\ \E slot_index \in Slots, msg \in RegisterWrites :
        PushMessage(slot_index, msg)

DoPushUpdate ==
    Budget(MaxOps) /\ \E slot_index \in Slots, channel \in Channels :
        PushUpdate(slot_index, channel, "u")

DoSetCFRBit ==
    Budget(MaxOps) /\ \E slot_index \in Slots, send \in BOOLEAN :
        \/ SetCFRBit(slot_index, 0, 1, 1, 0, send)
        \/ \E a \in BadCfrArgs :
              SetCFRBit(slot_index, a.channel, a.cfr_number, a.bit_number, a.bit_value, send)

DoResetCfr ==
    Budget(MaxOps) /\ \E slot_index \in Slots, response \in Responses :
        ResetCfr(slot_index, response)

DoReset ==
    Budget(MaxOps) /\ \E slot_index \in Slots, channel \in Channels \cup {None, BadChannel} :
        Reset(slot_index, channel)

DoSingleTone ==
    Budget(MaxOps) /\ \E slot_index \in Slots, channel \in Channels \cup {BadChannel} :
        SingleTone(slot_index, channel, 1000000, 100, 0)

DoFrequencyRamp ==
    Budget(MaxOps) /\ \E slot_index \in Slots, ramp \in FrequencyRamps, is_filter \in BOOLEAN :
        FrequencyRamp(slot_index, 0, 100, 0, ramp, is_filter)

DoPhaseRamp ==
    Budget(MaxOps) /\ \E slot_index \in Slots, ramp \in PhaseRamps, is_filter \in BOOLEAN :
        PhaseRamp(slot_index, 0, 1000000, 100, ramp, is_filter)

DoAmplitudeRamp ==
    Budget(MaxOps) /\ \E slot_index \in Slots, ramp \in AmplitudeRamps, is_filter \in BOOLEAN :
        AmplitudeRamp(slot_index, 1, 1000000, 0, ramp, is_filter)

DoWaitTime ==
    Budget(MaxOps) /\ \E slot_index \in Slots, channel \in Channels \cup {BadChannel} :
        WaitTime(slot_index, channel, 250)

DoWaitTrigger ==
    Budget(MaxOps) /\ \E slot_index \in Slots :
        \/ WaitTrigger(slot_index, 1, <<2>>, -TicksPerSecond)
        \/ WaitTrigger(slot_index, 1, <<2, NotATriggerEvent>>, 250)

DoFromMemory ==
    Budget(MaxOps) /\ \E slot_index \in Slots :
        \/ FromMemory(slot_index, 1, PHASE, Storage(PHASE, 3), None)
        \/ FromMemory(slot_index, 1, POLAR, Storage(PHASE, 3), None)

DoRun ==
    Budget(MaxOps) /\ \E slot_index \in Slots, no_update \in BOOLEAN, response \in Responses :
        Run(slot_index, no_update, response)

Next ==
    \/ DoPushMessage
    \/ DoPushUpdate
    \/ DoSetCFRBit
    \/ DoResetCfr
    \/ DoReset
    \/ DoSingleTone
    \/ DoFrequencyRamp
    \/ DoPhaseRamp
    \/ DoAmplitudeRamp
    \/ DoWaitTime
    \/ DoWaitTrigger
    \/ DoFromMemory
    \/ DoRun

Spec == Init /\ [][Next]_vars

(***************************************************************************)
(* The command queue of slot 0 under the queue operations: any message     *)
(* pushed, push_update, wait_time and run.                                 *)
(***************************************************************************)
CoPushMessage ==
    Budget(MaxCalls) /\ \E msg \in Messages : PushMessage(0, msg)

CoPushUpdate ==
    Budget(MaxCalls) /\ \E channel \in Channels \cup {None} : PushUpdate(0, channel, "u")

CoWaitTime ==
    Budget(MaxCalls) /\ \E channel \in Channels : WaitTime(0, channel, 250)

CoRun ==
    Budget(MaxCalls) /\ \E response \in Responses : Run(0, FALSE, response)

NextCoalescer ==
    \/ CoPushMessage
    \/ CoPushUpdate
    \/ CoWaitTime
    \/ CoRun

SpecCoalescer == Init /\ [][NextCoalescer]_vars

(***************************************************************************)
(* Slot 0 under register writes and push_update calls only.                *)
(***************************************************************************)
WrPushMessage ==
    Budget(MaxWrites) /\ \E msg \in RegisterWrites : PushMessage(0, msg)

WrPushUpdate ==
    Budget(MaxWrites) /\ \E channel \in Channels : PushUpdate(0, channel, "u")

NextWrites ==
    \/ WrPushMessage
    \/ WrPushUpdate

SpecWrites == Init /\ [][NextWrites]_vars

(***************************************************************************)
(* The shadow registers of slot 0 under _set_CFR_bit, accepted and         *)
(* rejected, with flushes and _reset_cfr in between.                       *)
(***************************************************************************)
CfrSetBit ==
    Budget(MaxCfrCalls) /\
        \E channel \in Channels, cfr_number \in CfrNumbers, bit_number \in BitNumbers,
           bit_value \in BitValues, send \in BOOLEAN :
            SetCFRBit(0, channel, cfr_number, bit_number, bit_value, send)

CfrSetBitRejected ==
    Budget(MaxCfrCalls) /\
        \/ \E a \in BadCfrArgs :
              SetCFRBit(0, a.channel, a.cfr_number, a.bit_number, a.bit_value, TRUE)
        \/ SetCFRBit(BadSlot, 0, 1, 1, 1, TRUE)

CfrRun ==
    Budget(MaxCfrCalls) /\ \E response \in Responses : Run(0, FALSE, response)

CfrResetCfr ==
    Budget(MaxCfrCalls) /\ ResetCfr(0, "ok")

NextCFR ==
    \/ CfrSetBit
    \/ CfrSetBitRejected
    \/ CfrRun
    \/ CfrResetCfr

SpecCFR == Init /\ [][NextCFR]_vars

(***************************************************************************)
(* Tones, frequency ramps and flushes on slot 0, up to MaxFlushCalls       *)
(* calls: the ramps that are programmed and those that abort, with and     *)
(* without is_filter, and run with and without no_update, answered by the  *)
(* device with or without an error.                                        *)
(***************************************************************************)
FlSingleTone ==
    Budget(MaxFlushCalls) /\ \E channel \in Channels : SingleTone(0, channel, 1000000, 100, 0)

\* two more downward ramps: one of 50 ticks a step, one too slow; a ramp down
\* to 0 Hz and a ramp up from 0 Hz
DownwardRamps ==
    {[start |-> 5000000, end |-> 1000000, tramp |-> 100000000, step |-> 2],
     [start |-> 2000000, end |-> 1000000, tramp |-> 4 * TicksPerSecond, step |-> 1000],
     [start |-> 1000000, end |-> 0, tramp |-> 100000000, step |-> 1],
     [start |-> 0, end |-> 1000000, tramp |-> 100000000, step |-> 1]}

FlFrequencyRamp ==
    Budget(MaxFlushCalls) /\ \E ramp \in FrequencyRamps \cup DownwardRamps, is_filter \in BOOLEAN :
        FrequencyRamp(0, 0, 100, 0, ramp, is_filter)

FlRun ==
    Budget(MaxFlushCalls) /\ \E no_update \in BOOLEAN, response \in Responses :
        Run(0, no_update, response)

NextFlush ==
    \/ FlSingleTone
    \/ FlFrequencyRamp
    \/ FlRun

SpecFlush == Init /\ [][NextFlush]_vars

(***************************************************************************)
(* The waits on slot 0: tones and ramps on both channels, push_update,     *)
(* wait_time, wait_trigger and run, up to MaxWaitCalls calls.              *)
(***************************************************************************)
WtSingleTone ==
    Budget(MaxWaitCalls) /\ \E channel \in Channels : SingleTone(0, channel, 1000000, 100, 0)

WtPhaseRamp ==
    Budget(MaxWaitCalls) /\ \E ramp \in PhaseRamps :
        PhaseRamp(0, 0, 1000000, 100, ramp, FALSE)

WtPushUpdate ==
    Budget(MaxWaitCalls) /\ \E channel \in Channels : PushUpdate(0, channel, "u")

WtWaitTime ==
    Budget(MaxWaitCalls) /\ \E channel \in Channels : WaitTime(0, channel, 250)

WtWaitTrigger ==
    Budget(MaxWaitCalls) /\ \E channel \in Channels, a \in TriggerArgs :
        WaitTrigger(0, channel, a.trigger_events, a.timeout)

WtRun ==
    Budget(MaxWaitCalls) /\ \E response \in Responses : Run(0, FALSE, response)

NextWait ==
    \/ WtSingleTone
    \/ WtPhaseRamp
    \/ WtPushUpdate
    \/ WtWaitTime
    \/ WtWaitTrigger
    \/ WtRun

SpecWait == Init /\ [][NextWait]_vars

(***************************************************************************)
(* RAM playback on slot 0 after tones and between flushes: accepted and    *)
(* rejected from_memory calls, up to MaxMemoryCalls calls.                  *)
(***************************************************************************)
MemSingleTone ==
    Budget(MaxMemoryCalls) /\ SingleTone(0, 0, 1000000, 100, 0)

MemFromMemory ==
    Budget(MaxMemoryCalls) /\ \E param_type \in RamTypes, n \in 1..MaxSamples,
                                 ramp_filter \in {None, PHASE} :
        FromMemory(0, 0, param_type, Storage(param_type, n), ramp_filter)

MemFromMemoryRejected ==
    Budget(MaxMemoryCalls) /\ \E a \in BadMemoryArgs :
        FromMemory(0, 0, a.param_type, a.storage, a.ramp_filter)

MemRun ==
    Budget(MaxMemoryCalls) /\ Run(0, FALSE, "ok")

MemPushUpdate ==
    Budget(MaxMemoryCalls) /\ \E channel \in Channels, update_type \in {"u", "=1p", "=0p"} :
        PushUpdate(0, channel, update_type)

NextMemory ==
    \/ MemSingleTone
    \/ MemPushUpdate
    \/ MemFromMemory
    \/ MemFromMemoryRejected
    \/ MemRun

SpecMemory == Init /\ [][NextMemory]_vars

(***************************************************************************)
(* from_memory as a function of its storage: one call on the constructed   *)
(* client, for every storage length 0..MaxStorage and every parameter     *)
(* type.                                                                   *)
(***************************************************************************)
StFromMemory ==
    Budget(1) /\ \E param_type \in RamTypes, n \in 0..MaxStorage :
        FromMemory(0, 0, param_type, Storage(param_type, n), None)

NextStorage == StFromMemory

SpecStorage == Init /\ [][NextStorage]_vars

(***************************************************************************)
(* Vocabulary of the properties.                                           *)
(***************************************************************************)
IsUpdate(msg) == msg.type = "UpdateMessage"

\* a RegisterWrite (AD9910 or DCP) or a Wait
IsWriteOrWait(msg) ==
    msg.type \in {"AD9910RegisterWriteMessage", "DCPRegisterWriteMessage", "WaitMessage"}

\* a command other than an Update addressed to channel c or to both channels
Targets(msg, c) == ~IsUpdate(msg) /\ msg.channel \in {c, None}

\* an Update for channel c or for both channels
Covers(msg, c) == IsUpdate(msg) /\ msg.channel \in {c, None}

\* the positions of the pending Updates for channel c in the queue q: the
\* Updates covering c with no later command other than an Update targeting c
Pending(q, c) ==
    {i \in 1..Len(q) : Covers(q[i], c) /\ \A j \in (i + 1)..Len(q) : ~Targets(q[j], c)}

\* the call appended exactly k messages and left the queued ones as they were
Appends(call, k) ==
    LET q0 == call.before.message_stack
        q1 == call.after.message_stack
    IN  Len(q1) = Len(q0) + k /\ SubSeq(q1, 1, Len(q0)) = q0

\* the 32-bit word a sequence of hexadecimal digits denotes, as its set of 1 bits
WordOfHex(h) ==
    {b \in 0..(4 * Len(h) - 1) : (h[Len(h) - (b \div 4)] \div (2 ^ (b % 4))) % 2 = 1}

\* a _set_CFR_bit call with a rejected channel, cfr_number, bit_number or bit_value
RejectedCfrArgs(call) ==
    \/ call.channel \notin {0, 1}
    \/ call.args.cfr_number \notin {1, 2}
    \/ call.args.bit_number \notin 0..31
    \/ call.args.bit_value \notin {0, 1}

ValidCfrCall(call) ==
    call.method = "_set_CFR_bit" /\ call.slot_index \in Slots /\ ~RejectedCfrArgs(call)

\* a phase_ramp or amplitude_ramp call whose start equals its end or whose
\* step lasts more than 0xffff ticks
RampAborts(call) ==
    LET a == call.args
    IN  \/ IF call.method = "phase_ramp" THEN a.start % 360000 = a.end % 360000
           ELSE a.start = a.end
        \/ StepTicks(a.step, Abs(a.start - a.end), a.tramp) > 65535

(***************************************************************************)
(* The update coalescer.                                                   *)
(***************************************************************************)
\* C1: after push_update(slot, c) returns, every RegisterWrite or Wait in the
\* slot's queue that targets channel c (or both channels) is followed later
\* in the queue by an Update covering c, whatever the queue held before.
C1_PushUpdateCovers ==
    (last.method = "push_update" /\ last.channel \in Channels) =>
        LET q == slots[last.slot_index].message_stack
        IN  \A i \in 1..Len(q) :
                (IsWriteOrWait(q[i]) /\ Targets(q[i], last.channel)) =>
                    \E j \in (i + 1)..Len(q) : Covers(q[j], last.channel)

\* push_update(c) scanned past a command of the other channel down to a
\* write for c and appended the Update
C1_Witness ==
    /\ last.method = "push_update" /\ last.channel \in Channels
    /\ Appends(last, 1)
    /\ LET q == last.before.message_stack
       IN  /\ Len(q) >= 2
           /\ IsWriteOrWait(q[Len(q) - 1]) /\ q[Len(q) - 1].channel = last.channel
           /\ ~IsUpdate(q[Len(q)]) /\ q[Len(q)].channel = 1 - last.channel

\* C2: after any sequence of register writes and push_update calls on one
\* slot, the queue holds at most one pending Update for each channel.
C2_AtMostOnePending ==
    \A s \in Slots, c \in Channels : Cardinality(Pending(slots[s].message_stack, c)) <= 1

\* C3: push_update(slot, c) called twice in a row changes the queue exactly
\* as a single call does: the second call appends nothing and modifies
\* nothing.
C3_Idempotent ==
    (/\ prev.method = "push_update" /\ last.method = "push_update"
     /\ last.slot_index = prev.slot_index /\ last.channel = prev.channel) =>
        /\ last.before = prev.after
        /\ last.after = prev.after
        /\ slots[last.slot_index] = prev.after

\* two push_update(c) in a row, the first of which appended an Update behind
\* queued commands
C3_Witness ==
    /\ prev.method = "push_update" /\ last.method = "push_update"
    /\ last.slot_index = prev.slot_index /\ last.channel = prev.channel
    /\ prev.channel \in Channels
    /\ prev.before.message_stack # <<>>
    /\ Appends(prev, 1)

\* C4: when push_update(slot, c) appended a new Update, an immediately
\* following push_update(slot, 1-c) appends nothing and changes the channel of
\* that Update to both; its flags, every other queued command and the shadow
\* words stay as they were.
C4_Widening ==
    (/\ prev.method = "push_update" /\ prev.channel \in Channels
     /\ Appends(prev, 1)
     /\ last.method = "push_update" /\ last.slot_index = prev.slot_index
     /\ last.channel = 1 - prev.channel) =>
        LET q == prev.after.message_stack
            n == Len(q)
        IN  /\ q[n] = UpdateMessage(prev.channel, "u")
            /\ last.after.message_stack = [q EXCEPT ![n].channel = None]
            /\ last.after.message_stack[n].update_type = q[n].update_type
            /\ last.after.cfr_regs = prev.after.cfr_regs
            /\ slots[last.slot_index] = last.after

\* push_update(c) appended an Update behind a queued command and
\* push_update(1-c) followed
C4_Witness ==
    /\ prev.method = "push_update" /\ prev.channel \in Channels
    /\ Appends(prev, 1)
    /\ prev.before.message_stack # <<>>
    /\ last.method = "push_update" /\ last.slot_index = prev.slot_index
    /\ last.channel = 1 - prev.channel
    /\ last.after.message_stack[Len(last.after.message_stack)].channel = None

(***************************************************************************)
(* The register state tracker.                                             *)
(***************************************************************************)
\* C5: each shadow word equals the power-on default with the bit set/clear
\* of every valid _set_CFR_bit call since the last _reset_cfr applied in call
\* order (each bit holds the value of the last call for it, or its default),
\* whether the calls had send true or false and whether or not the queue was
\* flushed in between.
C5_ShadowCumulative ==
    \A s \in Slots, channel \in Channels, cfr_number \in CfrNumbers :
        LET calls == {c \in bit_calls[s] : c[1] = channel /\ c[2] = cfr_number}
            cleared == {c[3] : c \in {k \in calls : k[4] = 0}}
            set == {c[3] : c \in {k \in calls : k[4] = 1}}
        IN  /\ cleared \cap set = {}
            /\ slots[s].cfr_regs[channel][cfr_number - 1]
                   = (CfrDefault(cfr_number - 1) \ cleared) \cup set

\* a send=false call cleared a bit the default has set, another bit was
\* given a value before it, and the queue was flushed after it
C5_Witness ==
    /\ last.method = "run" /\ last.ret = "None"
    /\ ValidCfrCall(prev) /\ ~prev.args.send /\ prev.args.bit_value = 0
    /\ get_bit(CfrDefault(prev.args.cfr_number - 1), prev.args.bit_number) = 1
    /\ get_bit(slots[prev.slot_index].cfr_regs[prev.channel][prev.args.cfr_number - 1],
               prev.args.bit_number) = 0
    /\ Cardinality(bit_calls[prev.slot_index]) >= 2

\* C6: a valid _set_CFR_bit call with send=true appends exactly one
\* RegisterWrite for CFR<cfr_number> on its channel whose value is the whole
\* updated 32-bit shadow word; a call with send=false appends nothing (so the
\* queued CFR writes are as many as the valid send=true calls).
C6_SendAppendsFullWord ==
    ValidCfrCall(last) =>
        LET a == last.args
            q1 == last.after.message_stack
            old == last.before.cfr_regs[last.channel][a.cfr_number - 1]
            word == last.after.cfr_regs[last.channel][a.cfr_number - 1]
            msg == q1[Len(q1)]
        IN  /\ word = IF a.bit_value = 1 THEN old \cup {a.bit_number}
                      ELSE old \ {a.bit_number}
            /\ IF a.send
               THEN /\ Appends(last, 1)
                    /\ msg.type = "AD9910RegisterWriteMessage"
                    /\ msg.channel = last.channel
                    /\ msg.register_name = (IF a.cfr_number = 1 THEN "CFR1" ELSE "CFR2")
                    /\ Len(msg.value) = 1 /\ Len(msg.value[1]) = 8
                    /\ WordOfHex(msg.value[1]) = word
               ELSE Appends(last, 0)

\* a send=true call on a word in which the send=false call before it changed
\* another bit
C6_Witness ==
    /\ ValidCfrCall(last) /\ last.args.send
    /\ ValidCfrCall(prev) /\ ~prev.args.send
    /\ prev.channel = last.channel /\ prev.args.cfr_number = last.args.cfr_number
    /\ prev.args.bit_number # last.args.bit_number
    /\ get_bit(prev.before.cfr_regs[prev.channel][prev.args.cfr_number - 1],
               prev.args.bit_number) # prev.args.bit_value
    /\ get_bit(WordOfHex(slots[last.slot_index].message_stack[
                   Len(slots[last.slot_index].message_stack)].value[1]),
               prev.args.bit_number) = prev.args.bit_value

\* C7: a _set_CFR_bit call with channel not in {0,1}, cfr_number not in
\* {1,2}, bit_number outside [0,31] or bit_value not in {0,1} leaves every
\* shadow word and every command queue unchanged, even when send is true.
C7_RejectedLeavesState ==
    [][(last'.method = "_set_CFR_bit" /\ RejectedCfrArgs(last')) => slots' = slots]_vars

\* a rejected call with send=true on a slot whose queue is not empty and
\* whose shadow words are off their defaults
C7_Witness ==
    /\ last.method = "_set_CFR_bit" /\ last.slot_index \in Slots
    /\ RejectedCfrArgs(last) /\ last.args.send
    /\ slots[last.slot_index].message_stack # <<>>
    /\ slots[last.slot_index].cfr_regs # WieserlabsSlot.cfr_regs

\* C8: every rejected argument of _set_CFR_bit (bad slot, channel,
\* cfr_number, bit_number or bit_value) is signalled by the returned
\* sentinel -1: the call returns normally and never raises.
C8_RejectionReturnsSentinel ==
    (last.method = "_set_CFR_bit" /\ (last.slot_index \notin Slots \/ RejectedCfrArgs(last))) =>
        last.ret = "-1"

(***************************************************************************)
(* The public operations.                                                  *)
(***************************************************************************)
PublicOperations ==
    {"single_tone", "frequency_ramp", "phase_ramp", "amplitude_ramp", "wait_time"}

\* C9: a public operation invoked with a channel outside {0,1} appends no
\* command, so every command of every flushed payload is addressed to
\* channel 0, channel 1 or both.
C9_MalformedNeverQueued ==
    /\ (last.method \in PublicOperations /\ last.channel \notin {0, 1}) =>
           last.after.message_stack = last.before.message_stack
    /\ \A s \in Slots : \A p \in 1..Len(wire[s]) : \A i \in 1..Len(wire[s][p]) :
           wire[s][p][i].channel \in {"0", "1", ""}

\* C10: a phase_ramp or amplitude_ramp that aborts because its start equals
\* its end or because the step tick count exceeds 0xffff appends no command:
\* the queue after the call is the queue before it, with is_filter false as
\* with is_filter true and in both ramp directions.
C10_AbortedRampAppendsNothing ==
    (last.method \in {"phase_ramp", "amplitude_ramp"} /\ RampAborts(last)) =>
        last.after.message_stack = last.before.message_stack

(***************************************************************************)
(* The ramps and the flush.                                                *)
(***************************************************************************)
\* a frequency_ramp call whose fstart equals its fend or whose step lasts
\* more than 0xffff ticks
FrequencyRampAborts(call) ==
    LET a == call.args
    IN  \/ a.start = a.end
        \/ StepTicks(a.step, Abs(a.start - a.end), a.tramp) > 65535

\* C11: a frequency_ramp that aborts because fstart equals fend or because
\* the step tick count exceeds 0xffff leaves the command queue and all
\* shadow CFR words of the slot exactly as they were before the call.
C11_AbortedFrequencyRampLeavesState ==
    (last.method = "frequency_ramp" /\ FrequencyRampAborts(last)) =>
        /\ last.after.message_stack = last.before.message_stack
        /\ last.after.cfr_regs = last.before.cfr_regs

\* a frequency_ramp with is_filter false aborted on its tick count, on a slot
\* whose queue held commands and whose shadow CFR2 was no longer the default
C11_Witness ==
    /\ last.method = "frequency_ramp" /\ ~last.args.is_filter
    /\ last.args.start # last.args.end /\ FrequencyRampAborts(last)
    /\ last.before.message_stack # <<>>
    /\ last.before.cfr_regs # WieserlabsSlot.cfr_regs
    /\ last.after = last.before

\* the register a command writes, "" for a command that writes none
RegisterName(msg) ==
    IF msg.type \in {"AD9910RegisterWriteMessage", "DCPRegisterWriteMessage"}
    THEN msg.register_name ELSE ""

\* the commands of the queue after the call that lie beyond the queue before it
NewCommands(call) ==
    SubSeq(call.after.message_stack, Len(call.before.message_stack) + 1,
           Len(call.after.message_stack))

\* the positions of q where a DRL, a DRSS and a DRR write follow each other
RampTriples(q) ==
    {i \in 1..(Len(q) - 2) : /\ RegisterName(q[i]) = "DRL"
                             /\ RegisterName(q[i + 1]) = "DRSS"
                             /\ RegisterName(q[i + 2]) = "DRR"}

\* C12: a downward phase_ramp or amplitude_ramp (start > end, is_filter
\* false) that is programmed queues the DRL, DRSS and DRR writes of the
\* priming upward ramp before the DRL, DRSS and DRR writes of the requested
\* ramp: the commands it appends hold two such triples.
C12_PrimingRampQueued ==
    (/\ last.method \in {"phase_ramp", "amplitude_ramp"}
     /\ last.args.start > last.args.end /\ ~last.args.is_filter
     /\ ~RampAborts(last)) =>
        \E i, j \in RampTriples(NewCommands(last)) : i + 2 < j

\* C13: when run raises because the response of the device contains
\* "error", the command queue of the slot is already empty, so a later run
\* does not transmit the commands of the failed payload again.
C13_FailedRunLeavesQueueEmpty ==
    (last.method = "run" /\ last.ret = "ValueError") => last.after.message_stack = <<>>

\* C14: after run returns normally the command queue of the slot is empty,
\* whatever it held before and whatever no_update is, and the shadow CFR
\* words are those before the call.
C14_RunClearsQueue ==
    (last.method = "run" /\ last.ret = "None") =>
        /\ last.after.message_stack = <<>>
        /\ last.after.cfr_regs = last.before.cfr_regs

\* a run with no_update that returned normally on a slot whose queue held
\* commands and whose shadow CFR words were no longer the defaults
C14_Witness ==
    /\ last.method = "run" /\ last.ret = "None" /\ last.args.no_update
    /\ last.before.message_stack # <<>>
    /\ last.before.cfr_regs # WieserlabsSlot.cfr_regs
    /\ last.after.message_stack = <<>>
    /\ last.after.cfr_regs = last.before.cfr_regs

(***************************************************************************)
(* The waits.                                                              *)
(***************************************************************************)
IsRegisterWrite(msg) ==
    msg.type \in {"AD9910RegisterWriteMessage", "DCPRegisterWriteMessage"}

\* the update types in use whose flags hold the update pulse flag 'u'
HasUpdatePulse(msg) == msg.update_type \in {"u", "u-d", "u+d"}

\* C15: wait_time(slot, c, t) forces an update pulse before the wait: in the
\* queue after the call every RegisterWrite targeting channel c that
\* precedes the appended Wait is followed, before that Wait, by an Update
\* covering c whose flags include 'u'.
C15_WaitTimeForcesUpdatePulse ==
    (last.method = "wait_time" /\ last.channel \in Channels) =>
        LET q == last.after.message_stack
            w == Len(q)
        IN  /\ w > 0 /\ q[w].type = "WaitMessage"
            /\ \A i \in 1..(w - 1) :
                   (IsRegisterWrite(q[i]) /\ Targets(q[i], last.channel)) =>
                       \E k \in (i + 1)..(w - 1) :
                           Covers(q[k], last.channel) /\ HasUpdatePulse(q[k])

\* C16: wait_trigger(slot, c, events) with valid events latches the pending
\* changes before the wait: in the queue after the call every RegisterWrite
\* targeting channel c that precedes the appended Wait is followed, before
\* that Wait, by an Update covering c.
C16_WaitTriggerLatches ==
    (/\ last.method = "wait_trigger" /\ last.channel \in Channels
     /\ \A e \in 1..Len(last.args.trigger_events) :
            last.args.trigger_events[e] \in TriggerEventValues) =>
        LET q == last.after.message_stack
            w == Len(q)
        IN  /\ w > 0 /\ q[w].type = "WaitMessage"
            /\ \A i \in 1..(w - 1) :
                   (IsRegisterWrite(q[i]) /\ Targets(q[i], last.channel)) =>
                       \E k \in (i + 1)..(w - 1) : Covers(q[k], last.channel)

\* C17: a register of a channel is never written a second time before run
\* without an Update for that channel between the two writes: between two
\* queued writes of the same AD9910 register of the same channel lies an
\* Update covering the channel.
C17_UpdateBeforeSecondWrite ==
    \A s \in Slots :
        LET q == slots[s].message_stack
        IN  \A i, j \in 1..Len(q) :
                (/\ i < j
                 /\ q[i].type = "AD9910RegisterWriteMessage"
                 /\ q[j].type = "AD9910RegisterWriteMessage"
                 /\ q[i].channel \in Channels /\ q[i].channel = q[j].channel
                 /\ q[i].register_name = q[j].register_name) =>
                    \E k \in (i + 1)..(j - 1) : Covers(q[k], q[i].channel)

(***************************************************************************)
(* RAM playback.                                                           *)
(***************************************************************************)
IsRamData(msg) == RegisterName(msg) \in {"RAM64C", "RAM64E"}

\* the RAM64C and RAM64E writes the call appended, in queue order
RamData(call) == SelectSeq(NewCommands(call), IsRamData)

IsSample(field) == field # ContinueSuffix

\* the encoded samples a RAM data write carries
SamplesOf(msg) == SelectSeq(msg.value, IsSample)

\* a from_memory call on slot 0 that passes a list of 1..512 numeric samples
\* of a parameter type from_memory programs
AcceptedMemoryCall(call) ==
    /\ call.method = "from_memory"
    /\ call.args.param_type \in RamTypes
    /\ call.args.storage.list
    /\ Len(call.args.storage.samples) \in 1..512
    /\ \A i \in 1..Len(call.args.storage.samples) : call.args.storage.samples[i] # NotANumber
    /\ call.args.ramp_filter \in RamParameterType \cup {None}

\* C18: for every storage length n in 1..512 the RAM data writes from_memory
\* appends carry the encoded samples of storage in reverse order, each once,
\* two per word, and end with exactly one RAM64E write, which holds the
\* single leftover sample when n is odd.
C18_RamWritesCarryReversedSamples ==
    AcceptedMemoryCall(last) =>
        LET x == last.args.storage.samples
            n == Len(x)
            w == RamData(last)
        IN  /\ Len(w) = (n + 1) \div 2
            /\ \A k \in 1..Len(w) :
                   /\ RegisterName(w[k]) = IF k = Len(w) THEN "RAM64E" ELSE "RAM64C"
                   /\ Len(SamplesOf(w[k])) = IF 2 * k <= n THEN 2 ELSE 1
            /\ \A i \in 1..n :
                   SamplesOf(w[(i + 1) \div 2])[2 - (i % 2)]
                       = retrv_fct(last.args.param_type, x[n + 1 - i])

RejectedMemoryCall(call) ==
    /\ call.method = "from_memory"
    /\ \/ call.args.param_type \notin RamTypes
       \/ ~call.args.storage.list
       \/ Len(call.args.storage.samples) \notin 1..512
       \/ \E i \in 1..Len(call.args.storage.samples) : call.args.storage.samples[i] = NotANumber
       \/ call.args.ramp_filter \notin RamParameterType \cup {None}

\* C20: every rejected from_memory call (param_type no RamParameterType,
\* param_type POLAR, empty storage, more than 512 samples, a non-numeric
\* sample, ramp_filter of the wrong type) leaves the command queue and all
\* shadow CFR words unchanged.
C20_RejectedFromMemoryLeavesState ==
    RejectedMemoryCall(last) =>
        /\ last.ret = "-1"
        /\ last.after.message_stack = last.before.message_stack
        /\ last.after.cfr_regs = last.before.cfr_regs

\* from_memory rejected a non-numeric sample on a slot whose queue held
\* commands and whose shadow CFR words were no longer the defaults
C20_Witness ==
    /\ RejectedMemoryCall(last)
    /\ \E i \in 1..Len(last.args.storage.samples) : last.args.storage.samples[i] = NotANumber
    /\ last.before.message_stack # <<>>
    /\ last.before.cfr_regs # WieserlabsSlot.cfr_regs
    /\ last.after = last.before

(***************************************************************************)
(* The flush and the order of the commands.                                *)
(***************************************************************************)
\* the payloads sent to the slot of the call, the last of them
LastPayload(call) == wire[call.slot_index][Len(wire[call.slot_index])]

\* the payload p holds the lines of the commands of the queue q in queue
\* order, a trailing Update of q with an empty channel token
Transmits(q, p) ==
    /\ Len(p) >= Len(q)
    /\ \A i \in 1..Len(q) :
           \/ p[i] = get_message(q[i])
           \/ /\ i = Len(q) /\ i = Len(p) /\ IsUpdate(q[i])
              /\ p[i] = [get_message(q[i]) EXCEPT !.channel = ""]

\* C21: for any queue contents, run with no_update false sends a payload
\* whose last line is an update command with an empty channel token: a
\* trailing Update is widened to all channels (no line is added), otherwise
\* a new all-channel Update 'u' is appended to the lines of the queue.
C21_RunEndsWithBroadUpdate ==
    (last.method = "run" /\ ~last.args.no_update) =>
        LET q == last.before.message_stack
            p == LastPayload(last)
            trailing == q # <<>> /\ IsUpdate(q[Len(q)])
        IN  /\ Transmits(q, p)
            /\ Len(p) = IF trailing THEN Len(q) ELSE Len(q) + 1
            /\ p[Len(p)].cmd = "dcp" /\ p[Len(p)].verb = "update"
            /\ p[Len(p)].channel = ""
            /\ p[Len(p)].name = IF trailing THEN q[Len(q)].update_type ELSE "u"

\* run with no_update false on a queue that ended with the Update 'u+d' of a
\* frequency ramp on channel 0: the payload ends with that Update, for both
\* channels
C21_Witness ==
    /\ last.method = "run" /\ ~last.args.no_update
    /\ last.before.message_stack # <<>>
    /\ LET q == last.before.message_stack
       IN  /\ IsUpdate(q[Len(q)]) /\ q[Len(q)].channel = 0 /\ q[Len(q)].update_type = "u+d"
           /\ Len(LastPayload(last)) = Len(q)
           /\ LastPayload(last)[Len(q)].channel = ""
           /\ LastPayload(last)[Len(q)].name = "u+d"

\* the operations that flush the queue: run, and _reset_cfr, which ends
\* with a call of run
Flushes == {"run", "_reset_cfr"}

\* C22: within one slot the command order is program order: every operation
\* other than run leaves the previous queue as a prefix of the new queue,
\* the only change to a queued command being the channel of an Update
\* widened to both channels, and the payload lines sent by run are the
\* queued commands in queue order.
C22_ProgramOrder ==
    LET q0 == last.before.message_stack
        q1 == last.after.message_stack
    IN  /\ last.method \notin Flushes =>
               /\ Len(q1) >= Len(q0)
               /\ \A i \in 1..Len(q0) :
                      \/ q1[i] = q0[i]
                      \/ IsUpdate(q0[i]) /\ q1[i] = [q0[i] EXCEPT !.channel = None]
        /\ (last.method = "run" /\ (q0 # <<>> \/ ~last.args.no_update)) =>
               /\ Transmits(q0, LastPayload(last))
               /\ Len(LastPayload(last)) <= Len(q0) + 1

\* a wait_time that widened the trailing Update of a queue of at least three
\* commands and appended its Wait behind it
C22_Witness ==
    LET q0 == last.before.message_stack
        q1 == last.after.message_stack
    IN  /\ last.method = "wait_time" /\ Len(q0) >= 3
        /\ Len(q1) = Len(q0) + 1
        /\ q0[Len(q0)].channel # None /\ q1[Len(q0)].channel = None
        /\ SubSeq(q1, 1, Len(q0) - 1) = SubSeq(q0, 1, Len(q0) - 1)

\* a step of the client in which the device reports no error: a call that
\* is no flush sends nothing; a flush of slot s sends nothing to the other
\* slots, sends the commands queued for s in one payload (none when there is
\* nothing to send) and leaves the queue of s empty
ExactlyOnceStep ==
    /\ last'.method \notin Flushes => wire' = wire
    /\ (last'.method \in Flushes /\ last'.ret = "None") =>
           LET s == last'.slot_index
               q == slots[s].message_stack
           IN  /\ \A t \in Slots \ {s} : wire'[t] = wire[t]
               /\ slots'[s].message_stack = <<>>
               /\ IF last'.method = "run" /\ q = <<>> /\ last'.args.no_update
                  THEN wire'[s] = wire[s]
                  ELSE /\ Len(wire'[s]) = Len(wire[s]) + 1
                       /\ SubSeq(wire'[s], 1, Len(wire[s])) = wire[s]
                       /\ Transmits(q, wire'[s][Len(wire'[s])])

\* C23: while the device reports no error, every command appended to the
\* queue of a slot is transmitted in exactly one payload, and transmission
\* happens only inside run for that slot: no other operation sends anything.
C23_ExactlyOnce == [][ExactlyOnceStep]_vars

\* a tone was queued without anything being sent, and the run that followed
\* sent its two commands and the Update in one payload and emptied the queue
C23_Witness ==
    /\ prev.method = "single_tone" /\ last.method = "run" /\ last.ret = "None"
    /\ prev.slot_index = last.slot_index
    /\ Len(last.before.message_stack) = 2
    /\ last.after.message_stack = <<>>
    /\ Len(wire[last.slot_index]) = 2
    /\ Len(LastPayload(last)) = 3
    /\ Transmits(last.before.message_stack, LastPayload(last))

(***************************************************************************)
(* Tones: single_tone over frequencies, amplitudes and phases on slot 0,   *)
(* among ramps and flushes.                                                *)
(***************************************************************************)
MaxToneCalls == 2

\* [freq (Hz), amp (1/1000), phase (1/1000 degree)]: one argument varies
ToneArgs ==
    {[freq |-> 1000000, amp |-> 100, phase |-> ph] :
        ph \in {0, 90000, 180000, 360000, 359998, 359990, -90000, 720500}}
    \cup {[freq |-> f, amp |-> 500, phase |-> 90000] : f \in {0, 999999999, 1000000000}}
    \cup {[freq |-> 2000000, amp |-> a, phase |-> 90000] : a \in {0, 1000, 1500}}

TnSingleTone ==
    Budget(MaxToneCalls) /\ \E channel \in Channels \cup {BadChannel}, tone \in ToneArgs :
        SingleTone(0, channel, tone.freq, tone.amp, tone.phase)

TnFrequencyRamp ==
    Budget(MaxToneCalls) /\ \E channel \in Channels :
        FrequencyRamp(0, channel, 100, 0,
                      [start |-> 1000000, end |-> 2000000, tramp |-> 100000000, step |-> 1], FALSE)

TnRun ==
    Budget(MaxToneCalls) /\ Run(0, FALSE, "ok")

\* CFR2 bits set and cleared directly: parallel data port (4), ramp enable
\* (19), ramp type (20), amplitude control (24)
TnSetCFRBit ==
    Budget(MaxToneCalls) /\ \E channel \in Channels, bit_number \in {4, 19, 20, 24},
                               bit_value \in BitValues, send \in BOOLEAN :
        SetCFRBit(0, channel, 2, bit_number, bit_value, send)

TnPhaseRamp ==
    Budget(MaxToneCalls) /\ \E channel \in Channels :
        PhaseRamp(0, channel, 1000000, 100,
                  [start |-> 0, end |-> 90000, tramp |-> 90000, step |-> 1000], FALSE)

NextTone ==
    \/ TnSingleTone
    \/ TnSetCFRBit
    \/ TnPhaseRamp
    \/ TnFrequencyRamp
    \/ TnRun

SpecTone == Init /\ [][NextTone]_vars

(***************************************************************************)
(* Durations: wait_time and wait_trigger over durations on both sides of   *)
(* 134 ms, on slot 0.                                                      *)
(***************************************************************************)
MaxDurationCalls == 2

\* ticks of 4 ns: 8 ns, 1 us, 100 ms, 133.999992 ms, 134 ms, 134.000008 ms,
\* 200 ms, 1 s
Durations == {2, 250, 25000000, 33499998, 33500000, 33500002, 50000000, TicksPerSecond}

DuWaitTime ==
    Budget(MaxDurationCalls) /\ \E channel \in Channels, t \in Durations :
        WaitTime(0, channel, t)

DuWaitTrigger ==
    Budget(MaxDurationCalls) /\ \E channel \in Channels, timeout \in Durations \cup {0, -TicksPerSecond} :
        WaitTrigger(0, channel, <<2>>, timeout)

DuRun ==
    Budget(MaxDurationCalls) /\ Run(0, FALSE, "ok")

NextDuration ==
    \/ DuWaitTime
    \/ DuWaitTrigger
    \/ DuRun

SpecDuration == Init /\ [][NextDuration]_vars

(***************************************************************************)
(* Frequency words: freq_to_word called on frequencies of [0, 1e9) on a    *)
(* grid of 1/16 Hz.                                                        *)
(***************************************************************************)
MaxWordCalls == 2

\* [hz, k]: the frequency hz + k / 16 Hz
FrequencyGrid ==
    [hz : {0, 1, 1000000, 499999999, 500000000, 999999998, 999999999},
     k : {0, 1, 2, 8, 13, 14, 15}]

\* the module-level function called by itself: no slot is touched
FreqToWord(f) ==
    /\ last' = [method |-> "freq_to_word", slot_index |-> None, channel |-> None,
                args |-> f, ret |-> freq_to_word_16th(f.hz, f.k), log |-> <<>>,
                before |-> WieserlabsSlot, after |-> WieserlabsSlot,
           frames |-> <<>>]
    /\ prev' = last
    /\ UNCHANGED <<slots, bit_calls, wire>>

FwFreqToWord ==
    Budget(MaxWordCalls) /\ \E f \in FrequencyGrid : FreqToWord(f)

NextFrequency ==
    \/ FwFreqToWord

SpecFrequency == Init /\ [][NextFrequency]_vars

(***************************************************************************)
(* Ramp filters: the three ramps with and without is_filter, and RAM       *)
(* playback with and without a ramp filter, on slot 0.                     *)
(***************************************************************************)
MaxFilterCalls == 2

FiFrequencyRamp ==
    Budget(MaxFilterCalls) /\ \E ramp \in FrequencyRamps \cup DownwardRamps, is_filter \in BOOLEAN :
        FrequencyRamp(0, 0, 100, 0, ramp, is_filter)

FiPhaseRamp ==
    Budget(MaxFilterCalls) /\ \E ramp \in PhaseRamps, is_filter \in BOOLEAN :
        PhaseRamp(0, 0, 1000000, 100, ramp, is_filter)

FiAmplitudeRamp ==
    Budget(MaxFilterCalls) /\ \E ramp \in AmplitudeRamps, is_filter \in BOOLEAN :
        AmplitudeRamp(0, 0, 1000000, 0, ramp, is_filter)

FiFromMemory ==
    Budget(MaxFilterCalls) /\ \E channel \in Channels, param_type \in RamTypes,
                                 ramp_filter \in RamTypes \cup {None} :
        FromMemory(0, channel, param_type, Storage(param_type, 2), ramp_filter)

FiSingleTone ==
    Budget(MaxFilterCalls) /\ \E channel \in Channels : SingleTone(0, channel, 1000000, 100, 0)

NextFilter ==
    \/ FiFrequencyRamp
    \/ FiPhaseRamp
    \/ FiAmplitudeRamp
    \/ FiFromMemory
    \/ FiSingleTone

SpecFilter == Init /\ [][NextFilter]_vars

(***************************************************************************)
(* The linear-response solver: one VoltageToOutputMap constructed and      *)
(* solved, over maps of one channel and of both channels.                  *)
(***************************************************************************)
MaxMapCalls == 1

Point(ch0, ch1, out) == [ch0 |-> ch0, ch1 |-> ch1, out |-> out]

\* the outputs of the points: amplitudes, phases, frequencies (Hz, of the
\* words 0x20c49c and 0x400002)
Outputs(output_type) ==
    IF output_type = OutputType_AMPLITUDE THEN {0, 100, 1000}
    ELSE IF output_type = OutputType_PHASE THEN {0, 45000, 90000}
    ELSE {500000, 976563}

\* maps of one channel: two points at -1, 0 or 1 V on the channel used
OneChannelMaps ==
    UNION {{VoltageToOutputMap(use_outputs, output_type,
                               Point(a, a, o1), Point(b, b, o2), Point(0, 0, 0)) :
               use_outputs \in {CH0_ONLY, CH1_ONLY}, a \in {-1, 0, 1}, b \in {-1, 0, 1},
               o1 \in Outputs(output_type), o2 \in Outputs(output_type)} :
           output_type \in OutputType}

BothVolts == {Point(0, 0, 0), Point(-1, 0, 0), Point(0, -1, 0), Point(-1, -1, 0)}

\* phase maps of both channels: three points at 0 or -1 V on each channel,
\* not on one line
BothChannelMaps ==
    {VoltageToOutputMap(BOTH, OutputType_PHASE,
                        [v1 EXCEPT !.out = o1], [v2 EXCEPT !.out = o2], [v3 EXCEPT !.out = o3]) :
        o1 \in Outputs(OutputType_PHASE), o2 \in Outputs(OutputType_PHASE),
        o3 \in Outputs(OutputType_PHASE),
        <<v1, v2, v3>> \in {v \in BothVolts \X BothVolts \X BothVolts :
                              Det3(<<v[1].ch0, v[1].ch1>>, <<v[2].ch0, v[2].ch1>>,
                                   <<v[3].ch0, v[3].ch1>>) # 0}}

GetEqnParameters(map) ==
    /\ last' = [method |-> "get_eqn_parameters", slot_index |-> None, channel |-> None,
                args |-> map, ret |-> get_eqn_parameters(map), log |-> <<>>,
                before |-> WieserlabsSlot, after |-> WieserlabsSlot,
           frames |-> <<>>]
    /\ prev' = last
    /\ UNCHANGED <<slots, bit_calls, wire>>

MapOneChannel == Budget(MaxMapCalls) /\ \E map \in OneChannelMaps : GetEqnParameters(map)

MapBothChannels == Budget(MaxMapCalls) /\ \E map \in BothChannelMaps : GetEqnParameters(map)

NextMap ==
    \/ MapOneChannel
    \/ MapBothChannels

SpecMap == Init /\ [][NextMap]_vars

(***************************************************************************)
(* The public operations on slot 0, each with a valid channel: tones, the  *)
(* three ramps with and without is_filter (on channel 0), RAM playback     *)
(* with and without a ramp filter, analog modulation, the waits, reset and *)
(* run.                                                                    *)
(***************************************************************************)
MaxShadowCalls == 2

\* an amplitude map and a frequency map of channel 0, a phase map of channel
\* 1, a phase map of both channels
ShadowMaps ==
    {VoltageToOutputMap(CH0_ONLY, OutputType_AMPLITUDE,
                        Point(-1, 0, 0), Point(1, 0, 100), Point(0, 0, 0)),
     VoltageToOutputMap(CH0_ONLY, OutputType_FREQUENCY,
                        Point(-1, 0, 0), Point(1, 0, 1000000), Point(0, 0, 0)),
     VoltageToOutputMap(CH1_ONLY, OutputType_PHASE,
                        Point(0, 0, 0), Point(0, 1, 90000), Point(0, 0, 0)),
     VoltageToOutputMap(BOTH, OutputType_PHASE,
                        Point(-1, 0, 90000), Point(0, -1, 45000), Point(0, 0, 0))}

ShSingleTone ==
    Budget(MaxShadowCalls) /\ \E channel \in Channels : SingleTone(0, channel, 1000000, 100, 0)

ShFrequencyRamp ==
    Budget(MaxShadowCalls) /\ \E ramp \in FrequencyRamps, is_filter \in BOOLEAN :
        FrequencyRamp(0, 0, 100, 0, ramp, is_filter)

ShPhaseRamp ==
    Budget(MaxShadowCalls) /\ \E ramp \in PhaseRamps, is_filter \in BOOLEAN :
        PhaseRamp(0, 0, 1000000, 100, ramp, is_filter)

ShAmplitudeRamp ==
    Budget(MaxShadowCalls) /\ \E ramp \in AmplitudeRamps, is_filter \in BOOLEAN :
        AmplitudeRamp(0, 0, 1000000, 0, ramp, is_filter)

ShFromMemory ==
    Budget(MaxShadowCalls) /\ \E channel \in Channels, param_type \in RamTypes,
                                 ramp_filter \in RamTypes \cup {None} :
        FromMemory(0, channel, param_type, Storage(param_type, 2), ramp_filter)

ShAnalogModulation ==
    Budget(MaxShadowCalls) /\ \E channel \in Channels, map \in ShadowMaps :
        AnalogModulation(0, channel, map)

ShWaitTime ==
    Budget(MaxShadowCalls) /\ \E channel \in Channels : WaitTime(0, channel, 250)

ShWaitTrigger ==
    Budget(MaxShadowCalls) /\ \E a \in TriggerArgs :
        WaitTrigger(0, 0, a.trigger_events, a.timeout)

ShReset ==
    Budget(MaxShadowCalls) /\ \E channel \in Channels : Reset(0, channel)

ShRun ==
    Budget(MaxShadowCalls) /\ \E no_update \in BOOLEAN, response \in Responses :
        Run(0, no_update, response)

NextShadow ==
    \/ ShSingleTone
    \/ ShFrequencyRamp
    \/ ShPhaseRamp
    \/ ShAmplitudeRamp
    \/ ShFromMemory
    \/ ShAnalogModulation
    \/ ShWaitTime
    \/ ShWaitTrigger
    \/ ShReset
    \/ ShRun

SpecShadow == Init /\ [][NextShadow]_vars

(***************************************************************************)
(* Priming: phase and amplitude ramps on slot 0, upward and downward, with *)
(* start values on both sides of 0, with and without is_filter, and run.   *)
(***************************************************************************)
MaxPrimingCalls == 2

\* ramps from and through negative phases, one of them a whole turn below 0
NegativePhaseRamps ==
    {[start |-> -90000, end |-> -180000, tramp |-> 90000, step |-> 1000],
     [start |-> -90000, end |-> 90000, tramp |-> 90000, step |-> 1000],
     [start |-> 90000, end |-> -90000, tramp |-> 90000, step |-> 1000],
     [start |-> -360000, end |-> -450000, tramp |-> 90000, step |-> 1000]}

\* ramps from and through negative amplitudes
NegativeAmplitudeRamps ==
    {[start |-> -500, end |-> -1000, tramp |-> 500000, step |-> 1],
     [start |-> -500, end |-> 500, tramp |-> 500000, step |-> 1],
     [start |-> 500, end |-> -500, tramp |-> 500000, step |-> 1]}

PrPhaseRamp ==
    Budget(MaxPrimingCalls) /\ \E ramp \in PhaseRamps \cup NegativePhaseRamps,
                                  is_filter \in BOOLEAN :
        PhaseRamp(0, 0, 1000000, 100, ramp, is_filter)

PrAmplitudeRamp ==
    Budget(MaxPrimingCalls) /\ \E ramp \in AmplitudeRamps \cup NegativeAmplitudeRamps,
                                  is_filter \in BOOLEAN :
        AmplitudeRamp(0, 0, 1000000, 0, ramp, is_filter)

PrRun ==
    Budget(MaxPrimingCalls) /\ \E response \in Responses : Run(0, FALSE, response)

NextPriming ==
    \/ PrPhaseRamp
    \/ PrAmplitudeRamp
    \/ PrRun

SpecPriming == Init /\ [][NextPriming]_vars

(***************************************************************************)
(* Slots and channels.                                                     *)
(***************************************************************************)
\* a step leaves the queue and the shadow CFR words of every slot other than
\* that of the call as they were, and, when the call is for channel 0 or 1,
\* the shadow CFR words of the other channel of its slot
FrameStep ==
    /\ \A t \in Slots \ {last'.slot_index} : slots'[t] = slots[t]
    /\ (last'.slot_index \in Slots /\ last'.channel \in Channels) =>
           slots'[last'.slot_index].cfr_regs[1 - last'.channel]
               = slots[last'.slot_index].cfr_regs[1 - last'.channel]

\* C24: slots and channels are independent: an operation invoked for slot s
\* and channel c leaves the command queue and the shadow CFR words of every
\* other slot unchanged, and the shadow CFR words of the other channel of
\* slot s unchanged.
C24_SlotsAndChannelsIndependent == [][FrameStep]_vars

\* an amplitude ramp on channel 1 changed the shadow words of channel 1 of a
\* slot whose channel 0 words a tone had changed before; the channel 0 words
\* and the other slot are as they were
C24_Witness ==
    /\ prev.method = "single_tone" /\ prev.channel = 0
    /\ last.method = "amplitude_ramp" /\ last.channel = 1
    /\ prev.slot_index = last.slot_index
    /\ last.before.cfr_regs[0] # WieserlabsSlot.cfr_regs[0]
    /\ last.after.cfr_regs[0] = last.before.cfr_regs[0]
    /\ last.after.cfr_regs[1] # last.before.cfr_regs[1]
    /\ \A t \in Slots \ {last.slot_index} : slots[t] = WieserlabsSlot

(***************************************************************************)
(* Frequency ramps.                                                        *)
(***************************************************************************)
\* the slot as frequency_ramp leaves it when called on the state `before`
\* with the endpoints fstart and fend and the other arguments of `call`
RampFrom(call, fstart, fend) ==
    LET a == call.args
        self == [Fresh EXCEPT !.message_stack = call.before.message_stack,
                              !.cfr_regs = call.before.cfr_regs]
        r == frequency_ramp(self, call.slot_index, call.channel, fstart, fend,
                            a.amp, a.phase, a.tramp, a.step, a.is_filter)
    IN  [message_stack |-> r.message_stack, cfr_regs |-> r.cfr_regs]

\* C25: frequency_ramp called with fend < fstart appends the command sequence
\* (DRL limits, DRSS, DRR and updates) that frequency_ramp called with the
\* mirrored endpoints 1e9 - fstart and 1e9 - fend and otherwise equal
\* arguments appends from the same starting state.
C25_DownwardRampIsMirroredRamp ==
    (/\ last.method = "frequency_ramp"
     /\ last.slot_index \in Slots
     /\ last.args.end < last.args.start) =>
        last.after = RampFrom(last, 1000000000 - last.args.start,
                                    1000000000 - last.args.end)

\* a downward frequency ramp from 5 MHz to 1 MHz appended its commands to a
\* queue that held commands already; its limits are the words of 999 MHz and
\* 995 MHz
C25_Witness ==
    /\ last.method = "frequency_ramp" /\ ~last.args.is_filter
    /\ last.args.start = 5000000 /\ last.args.end = 1000000
    /\ last.before.message_stack # <<>>
    /\ Appends(last, 12)
    /\ \E i \in DOMAIN last.after.message_stack :
           LET msg == last.after.message_stack[i]
           IN  /\ msg.type = "AD9910RegisterWriteMessage" /\ msg.register_name = "DRL"
               /\ msg.value = <<freq_to_word(999000000) \o freq_to_word(995000000)>>
               /\ msg.value = <<<<15, 15, 11, 14, 7, 6, 12, 9, 15, 14, 11, 8, 5, 1, 14, 12>>>>

(***************************************************************************)
(* The end of a ramp.                                                      *)
(***************************************************************************)
Ramps == {"frequency_ramp", "phase_ramp", "amplitude_ramp"}

\* a ramp call with is_filter false on a slot and channel that exist, which
\* passed its endpoint check and its tick count check
SuccessfulRamp(call) ==
    /\ call.method \in Ramps
    /\ call.slot_index \in Slots /\ call.channel \in Channels
    /\ ~call.args.is_filter
    /\ IF call.method = "frequency_ramp" THEN ~FrequencyRampAborts(call) ELSE ~RampAborts(call)

\* the update types that end the ramp of `call`
EndingUpdates(call) ==
    IF call.method = "frequency_ramp" THEN <<"u-d", "u+d">>
    ELSE IF call.args.start > call.args.end THEN <<"u", "-d">>
    ELSE <<"u-d", "+d">>

\* the last five commands of the sequence new are the DRL, DRSS and DRR
\* writes and the two updates of types u, all for channel c
EndsRamp(new, c, u) ==
    LET n == Len(new)
    IN  /\ n >= 5
        /\ \A i \in 1..3 :
               /\ new[n - 5 + i].type = "AD9910RegisterWriteMessage"
               /\ new[n - 5 + i].channel = c
               /\ new[n - 5 + i].register_name = <<"DRL", "DRSS", "DRR">>[i]
        /\ new[n - 1] = UpdateMessage(c, u[1])
        /\ new[n] = UpdateMessage(c, u[2])

\* C26: a successful ramp with is_filter false ends with its DRL, DRSS and DRR
\* writes, in that order, followed by two Updates on the ramp's channel as the
\* last two commands it appends: 'u-d' then 'u+d' for frequency_ramp, 'u-d'
\* then '+d' for an upward phase_ramp or amplitude_ramp, 'u' then '-d' for a
\* downward phase_ramp or amplitude_ramp.
C26_RampEndsWithLimitsAndTwoUpdates ==
    SuccessfulRamp(last) =>
        /\ SubSeq(last.after.message_stack, 1, Len(last.before.message_stack))
               = last.before.message_stack
        /\ EndsRamp(NewCommands(last), last.channel, EndingUpdates(last))

\* a downward amplitude ramp followed a downward phase ramp on the same slot:
\* both succeeded, and the queue ends with the plain update and the -d update
C26_Witness ==
    /\ SuccessfulRamp(prev) /\ prev.method = "phase_ramp"
    /\ prev.args.start > prev.args.end
    /\ SuccessfulRamp(last) /\ last.method = "amplitude_ramp"
    /\ last.args.start > last.args.end
    /\ prev.slot_index = last.slot_index
    /\ LET q == slots[last.slot_index].message_stack
       IN  /\ Len(q) >= 2
           /\ q[Len(q) - 1] = UpdateMessage(1, "u")
           /\ q[Len(q)] = UpdateMessage(1, "-d")

ResetWrites ==
    << AD9910RegisterWriteMessage(0, "CFR1", <<<<0, 0, 4, 1, 0, 0, 0, 2>>>>),
       AD9910RegisterWriteMessage(1, "CFR1", <<<<0, 0, 4, 1, 0, 0, 0, 2>>>>),
       AD9910RegisterWriteMessage(0, "CFR2", <<<<0, 0, 4, 0, 0, 8, 12, 0>>>>),
       AD9910RegisterWriteMessage(1, "CFR2", <<<<0, 0, 4, 0, 0, 8, 12, 0>>>>) >>

\* the payload of the queue q followed by the update for both channels
PayloadWithUpdate(q) ==
    [i \in 1..(Len(q) + 1) |->
        IF i <= Len(q) THEN get_message(q[i]) ELSE get_message(UpdateMessage(None, "u"))]

DualResolution(t) ==
    IF 4 * t <= 134000000
    THEN <<RoundDiv(4 * t, 8), "h">>
    ELSE <<RoundDiv(4 * t, 1024), "">>

\* the command that `call` appended last
LastAppended(call) == call.after.message_stack[Len(call.after.message_stack)]

C30_PhaseWordIsSixteenBits ==
    /\ phase_to_word(0) = <<0, 0, 0, 0>>
    /\ phase_to_word(360000) = <<0, 0, 0, 0>>
    /\ phase_to_word(180000) = <<8, 0, 0, 0>>
    /\ (last.method = "single_tone" /\ last.slot_index \in Slots) =>
           LET word == phase_to_word(last.args.phase)
           IN  /\ LastAppended(last).value[2] = word
               /\ Len(word) = 4
               /\ \A i \in 1..Len(word) : word[i] \in 0..15

(***************************************************************************)
(* The frequency word.                                                     *)
(***************************************************************************)
\* the hex strings a and b of equal length, read as numbers: a <= b
HexLeq(a, b) ==
    \/ a = b
    \/ \E i \in 1..Len(a) : a[i] < b[i] /\ \A j \in 1..(i - 1) : a[j] = b[j]

\* C31: freq_to_word is monotonic (non-decreasing) in its input over the
\* whole range [0, 1e9), with freq_to_word(0) = 0x00000000 and
\* freq_to_word(5e8) = 0x80000000.
C31_FreqWordMonotonic ==
    /\ freq_to_word(0) = <<0, 0, 0, 0, 0, 0, 0, 0>>
    /\ freq_to_word(500000000) = <<8, 0, 0, 0, 0, 0, 0, 0>>
    /\ (/\ prev.method = "freq_to_word" /\ last.method = "freq_to_word"
        /\ \/ prev.args.hz < last.args.hz
           \/ prev.args.hz = last.args.hz /\ prev.args.k <= last.args.k) =>
           HexLeq(prev.ret, last.ret)

(***************************************************************************)
(* Update flags.                                                           *)
(***************************************************************************)
\* C32: an Update that push_update(slot, channel, update_type) appends
\* carries the requested update_type flags; in particular from_memory emits
\* an update with flags '=1p' followed by an update with flags '=0p' after
\* writing the RAM profile register.
C32_UpdateCarriesRequestedFlags ==
    /\ (last.method = "push_update" /\ last.slot_index \in Slots /\ Appends(last, 1)) =>
           LastAppended(last) = UpdateMessage(last.channel, last.args[1])
    /\ (AcceptedMemoryCall(last) /\ last.slot_index \in Slots) =>
           LET new == NewCommands(last)
           IN  \E i \in 1..(Len(new) - 2) :
                   /\ RegisterName(new[i]) = "stp0"
                   /\ new[i + 1] = UpdateMessage(last.channel, "=1p")
                   /\ new[i + 2] = UpdateMessage(last.channel, "=0p")

(***************************************************************************)
(* The shadow words after a tone.                                          *)
(***************************************************************************)
\* C33: after single_tone(slot, c, ...) with a valid channel, whatever
\* operations preceded it, the CFR2 shadow word of (slot, c) has bit 24 = 1,
\* bit 4 (parallel data port) = 0 and bit 19 (ramp enable) = 0, and every
\* other shadow bit (all of CFR1, the ramp-type bits 20 and 21, the other
\* channel) is unchanged.
C33_SingleToneShadowBits ==
    (last.method = "single_tone" /\ last.slot_index \in Slots /\ last.channel \in Channels) =>
        LET c == last.channel
            b == last.before.cfr_regs
            a == last.after.cfr_regs
        IN  /\ 24 \in a[c][1] /\ 4 \notin a[c][1] /\ 19 \notin a[c][1]
            /\ a[c][1] \ {4, 19, 24} = b[c][1] \ {4, 19, 24}
            /\ a[c][0] = b[c][0]
            /\ a[1 - c] = b[1 - c]
            /\ slots[last.slot_index].cfr_regs = a

\* a tone on a channel whose parallel data port bit 4 had just been set and
\* whose amplitude control bit 24 was clear: the tone cleared bit 4 and set
\* bit 24
C33_Witness ==
    /\ prev.method = "_set_CFR_bit" /\ prev.args.bit_number = 4 /\ prev.args.bit_value = 1
    /\ prev.ret = "None"
    /\ last.method = "single_tone" /\ last.channel = prev.channel
    /\ 4 \in last.before.cfr_regs[last.channel][1]
    /\ 24 \notin last.before.cfr_regs[last.channel][1]
    /\ 4 \notin last.after.cfr_regs[last.channel][1]
    /\ 24 \in last.after.cfr_regs[last.channel][1]

(***************************************************************************)
(* The ramp bits of CFR2.                                                  *)
(***************************************************************************)
\* bits 19 (ramp enable), 20 and 21 (ramp type) of a shadow word
RampBits(word) == <<get_bit(word, 19), get_bit(word, 20), get_bit(word, 21)>>

\* the ramp bits each ramp operation is said to leave
BitsOfRamp(method) ==
    IF method = "frequency_ramp" THEN <<1, 0, 0>>
    ELSE IF method = "phase_ramp" THEN <<1, 1, 0>>
    ELSE <<1, 0, 1>>

\* the ramp operation that corresponds to a ramp filter
RampOfFilter(ramp_filter) ==
    IF ramp_filter = FREQUENCY THEN "frequency_ramp"
    ELSE IF ramp_filter = PHASE THEN "phase_ramp"
    ELSE "amplitude_ramp"

\* C34: after a successful non-filter ramp on channel c the CFR2 shadow bits
\* (19, 20, 21) of c are (1,0,0) for frequency_ramp, (1,1,0) for phase_ramp
\* and (1,0,1) for amplitude_ramp, and from_memory with ramp_filter FREQUENCY,
\* PHASE or AMPLITUDE leaves exactly the same triple as the corresponding
\* ramp operation.
C34_RampBitsOfRampsAndFilters ==
    /\ SuccessfulRamp(last) =>
           RampBits(last.after.cfr_regs[last.channel][1]) = BitsOfRamp(last.method)
    /\ (/\ AcceptedMemoryCall(last) /\ last.slot_index \in Slots /\ last.channel \in Channels
        /\ last.args.ramp_filter \in RamTypes) =>
           RampBits(last.after.cfr_regs[last.channel][1])
               = BitsOfRamp(RampOfFilter(last.args.ramp_filter))

\* RAM playback with the amplitude ramp filter on the channel of a successful
\* phase ramp: the ramp had left the bits (1,1,0), the playback leaves (1,0,1)
C34_Witness ==
    /\ SuccessfulRamp(prev) /\ prev.method = "phase_ramp"
    /\ AcceptedMemoryCall(last) /\ last.args.ramp_filter = AMPLITUDE
    /\ last.channel = prev.channel
    /\ RampBits(last.before.cfr_regs[last.channel][1]) = <<1, 1, 0>>
    /\ RampBits(last.after.cfr_regs[last.channel][1]) = <<1, 0, 1>>
    /\ last.ret = "None"

(***************************************************************************)
(* Ramps used as filters.                                                  *)
(***************************************************************************)
\* the register names of the commands of the sequence new, "" for a command
\* that is no register write
RegisterNames(new) == [i \in DOMAIN new |-> RegisterName(new[i])]

\* C35: with is_filter true a ramp operation never modifies the CFR2 shadow
\* word and appends no Update carrying a direction flag ('u-d', 'u+d', '+d',
\* '-d'); phase_ramp and amplitude_ramp with is_filter true append only the
\* DRL, DRSS and DRR writes, with no priming self-call.
C35_FilterRampLeavesCfr2 ==
    (/\ last.method \in Ramps /\ last.args.is_filter
     /\ last.slot_index \in Slots /\ last.channel \in Channels) =>
        LET new == NewCommands(last)
        IN  /\ SubSeq(last.after.message_stack, 1, Len(last.before.message_stack))
                   = last.before.message_stack
            /\ \A c \in Channels : last.after.cfr_regs[c][1] = last.before.cfr_regs[c][1]
            /\ \A i \in DOMAIN new :
                   IsUpdate(new[i]) => new[i].update_type \notin {"u-d", "u+d", "+d", "-d"}
            /\ last.method \in {"phase_ramp", "amplitude_ramp"} =>
                   /\ last.after.cfr_regs = last.before.cfr_regs
                   /\ RegisterNames(new) = IF RampAborts(last) THEN <<>> ELSE <<"DRL", "DRSS", "DRR">>
                   /\ \A i \in DOMAIN new :
                          new[i].type = "AD9910RegisterWriteMessage" /\ new[i].channel = last.channel

\* a downward phase ramp used as a filter on a channel whose ramp bits a
\* non-filter amplitude ramp had set: three commands appended, no shadow word
\* changed
C35_Witness ==
    /\ SuccessfulRamp(prev) /\ prev.method = "amplitude_ramp"
    /\ last.method = "phase_ramp" /\ last.args.is_filter /\ ~RampAborts(last)
    /\ last.args.start > last.args.end
    /\ last.channel = prev.channel
    /\ RampBits(last.after.cfr_regs[last.channel][1]) = <<1, 0, 1>>
    /\ Appends(last, 3)
    /\ last.after.cfr_regs = last.before.cfr_regs

(***************************************************************************)
(* The limits of a frequency ramp.                                         *)
(***************************************************************************)
\* C36: for every frequency_ramp call that is not rejected (any fstart # fend
\* in [0, 1e9), an endpoint of 0 included), the DRL register value has its
\* upper-limit field (high 32 bits) greater than or equal to its lower-limit
\* field (low 32 bits): the ramp is always programmed as an upward ramp.
C36_UpperLimitNotBelowLower ==
    (/\ last.method = "frequency_ramp" /\ ~FrequencyRampAborts(last)
     /\ last.slot_index \in Slots /\ last.channel \in Channels) =>
        LET new == NewCommands(last)
        IN  /\ \E i \in DOMAIN new : RegisterName(new[i]) = "DRL"
            /\ \A i \in DOMAIN new :
                   RegisterName(new[i]) = "DRL" =>
                       HexLeq(SubSeq(new[i].value[1], 9, 16), SubSeq(new[i].value[1], 1, 8))

(***************************************************************************)
(* The linear-response solver.                                             *)
(***************************************************************************)
\* (vch0 * s0 + vch1 * s1) / 2^12 + offset - out
Residual(x, vch0, vch1, out) ==
    RAdd(RAdd(RSub(x.offset, RInt(out)), RMul(RInt(vch0), RMul(x.s0, Rat(1, 2 ^ 12)))),
         RMul(RInt(vch1), RMul(x.s1, Rat(1, 2 ^ 12))))

Solved(call) == call.method = "get_eqn_parameters" /\ call.ret.raised = "None"

\* C40: the coefficients (s0, s1, offset) that get_eqn_parameters returns
\* reproduce every supplied point, out_k = (vk_ch0 * s0 + vk_ch1 * s1) / 2^12
\* + offset: both points of a CH0_ONLY map (with s1 = 0) and of a CH1_ONLY
\* map (with s0 = 0), and all three points of a BOTH map.
C40_CoefficientsReproducePoints ==
    Solved(last) =>
        LET map == last.args
            x == last.ret
        IN  /\ Residual(x, map.v1ch0, map.v1ch1, map.out1) = RInt(0)
            /\ Residual(x, map.v2ch0, map.v2ch1, map.out2) = RInt(0)
            /\ map.use_outputs = CH0_ONLY => x.s1 = RInt(0)
            /\ map.use_outputs = CH1_ONLY => x.s0 = RInt(0)
            /\ map.use_outputs = BOTH => Residual(x, map.v3ch0, map.v3ch1, map.out3) = RInt(0)

(***************************************************************************)
(* The shadow words and the CFR writes.                                    *)
(***************************************************************************)
\* the value of the last write of register CFR<k+1> of a channel among the
\* commands, <<>> when there is none
LastCfrWriteIn(commands, channel, k) ==
    LET I == {i \in DOMAIN commands :
                 /\ commands[i].verb = "spi"
                 /\ commands[i].name = (IF k = 0 THEN "CFR1" ELSE "CFR2")
                 /\ commands[i].channel = ChannelToken(channel)}
    IN  IF I = {} THEN <<>>
        ELSE commands[CHOOSE i \in I : \A j \in I : j <= i].value

\* the value of the most recently enqueued write of the register: the last
\* one in the queue of the slot or, when it holds none, the last one sent
LastCfrWrite(s, channel, k) ==
    LET stack == slots[s].message_stack
        queued == LastCfrWriteIn([i \in DOMAIN stack |-> get_message(stack[i])], channel, k)
        J == {j \in DOMAIN wire[s] : LastCfrWriteIn(wire[s][j], channel, k) # <<>>}
    IN  IF queued # <<>> THEN queued
        ELSE IF J = {} THEN <<>>
        ELSE LastCfrWriteIn(wire[s][CHOOSE j \in J : \A i \in J : i <= j], channel, k)

\* C37: no shadow change is left unsent: after construction and after every
\* public operation with a valid channel (single_tone, the three ramps,
\* from_memory, analog_modulation, the waits, reset, run), for each channel
\* and each CFR register the value of the most recently enqueued CFR write
\* equals the shadow word.
C37_NoShadowChangeLeftUnsent ==
    \A s \in Slots, channel \in Channels, k \in {0, 1} :
        LastCfrWrite(s, channel, k) = CfrValue(slots[s].cfr_regs[channel][k])

\* an analog modulation with a frequency map has changed the gain bits and
\* the parallel data port bit of CFR2 on a channel that a RAM playback had
\* changed CFR1 and CFR2 of, and the last write of each carries the shadow
\* word
C37_Witness ==
    /\ prev.method = "from_memory" /\ prev.ret = "None" /\ prev.args.ramp_filter # None
    /\ last.method = "analog_modulation" /\ last.ret = "None"
    /\ last.args.output_type = OutputType_FREQUENCY
    /\ last.channel = prev.channel
    /\ prev.after.cfr_regs[prev.channel] # prev.before.cfr_regs[prev.channel]
    /\ last.after.cfr_regs[last.channel][1] # last.before.cfr_regs[last.channel][1]
    /\ LastCfrWrite(0, last.channel, 1) = CfrValue(slots[0].cfr_regs[last.channel][1])
    /\ LastCfrWrite(0, last.channel, 0) = CfrValue(slots[0].cfr_regs[last.channel][0])

(***************************************************************************)
(* reset.                                                                  *)
(***************************************************************************)
\* C39: reset(slot, channel) appends exactly one Reset command, addressed to
\* both channels ("dds reset") whatever channel argument is given, and
\* leaves the shadow CFR words of the slot as they are: they are not set
\* back to the power-on defaults.
C39_ResetAddressesBothChannels ==
    (last.method = "reset" /\ last.slot_index \in Slots) =>
        /\ Appends(last, 1)
        /\ get_message(LastAppended(last)) =
               [cmd |-> "dds", channel |-> "", verb |-> "reset", name |-> "", value |-> <<>>]
        /\ last.after.cfr_regs = last.before.cfr_regs

\* a reset with channel 1 on a slot whose CFR2 shadow word of channel 1 a
\* tone had changed: one Reset for both channels, the changed word kept
C39_Witness ==
    /\ prev.method = "single_tone" /\ prev.channel = 1 /\ prev.slot_index = 0
    /\ last.method = "reset" /\ last.channel = 1 /\ last.slot_index = 0
    /\ slots[0].cfr_regs[1][1] # CFR2_DEFAULT
    /\ Appends(last, 1)
    /\ LastAppended(last).type = "ResetMessage"
    /\ ChannelToken(LastAppended(last).channel) = ""

(***************************************************************************)
(* The priming calls.                                                      *)
(***************************************************************************)
\* C38: phase_ramp and amplitude_ramp always return: a call makes the priming
\* self-call at most once, a priming call up to a start value >= 0 makes no
\* further self-call, and for every input, negative start values included,
\* the self-calls are nested at most two deep.
C38_PrimingNestsAtMostTwice ==
    (last.method \in {"phase_ramp", "amplitude_ramp"} /\ last.slot_index \in Slots) =>
        LET f == last.frames
        IN  /\ last.ret \in {"None", "-1"}
            /\ Len(f) >= 1
            /\ f[1] = [method |-> last.method, depth |-> 0,
                       start |-> last.args.start, end |-> last.args.end]
            /\ \A i \in DOMAIN f : f[i].depth = i - 1 /\ f[i].depth <= 2
            /\ \A i \in 2..Len(f) :
                   /\ f[i].method = last.method
                   /\ f[i].start = 0 /\ f[i].end = f[i - 1].start
                   /\ f[i].end >= 0 => i = Len(f)

\* a downward phase ramp from -90 degrees: its priming call ramps from 0 down
\* to -90 degrees and makes a priming call itself, from 0 to 0, which makes
\* none
C38_Witness ==
    /\ last.method = "phase_ramp" /\ last.ret = "None" /\ ~last.args.is_filter
    /\ last.args.start < 0 /\ last.args.start > last.args.end
    /\ Len(last.frames) = 3
    /\ last.frames[2].end = last.args.start
    /\ last.frames[3].start = 0 /\ last.frames[3].end = 0 /\ last.frames[3].depth = 2

====
